---- MODULE Spec2Model ----
(***************************************************************************)
(* A model of the sequence utilities and transformers of total-serialism   *)
(* (src/src/utility.ts).  Every library function is a pure function of its *)
(* arguments; the model represents each as an operator computed the way    *)
(* the TypeScript computes it, and a call as one step of a state machine   *)
(* that records the function called, its arguments and what it returned.   *)
(*                                                                         *)
(* JavaScript values are tagged records:                                   *)
(*   [t |-> "num", n, d]   a finite number, the fraction n/d in lowest     *)
(*                         terms with d > 0 (doubles are modelled exactly; *)
(*                         -0 is not distinguished from 0)                 *)
(*   [t |-> "nan"], [t |-> "inf"], [t |-> "ninf"]   NaN, Infinity,         *)
(*                         -Infinity                                       *)
(*   [t |-> "undef"]       undefined                                       *)
(*   [t |-> "str", s]      a string, s the sequence of its characters      *)
(*   [t |-> "arr", e]      an Array, e the TLA+ sequence of its elements   *)
(*   [t |-> "throw", s]    the call threw the exception named s            *)
(***************************************************************************)
EXTENDS Integers, Sequences, FiniteSets, TLC

VARIABLES op, args, res, prev, heap, refs

vars == <<op, args, res, prev, heap, refs>>

(***************************************************************************)
(* Bounds of the model.                                                    *)
(***************************************************************************)
\* longest generated flat input list
MaxLen == 3
\* scalar inputs (x, lo, hi) range over -MaxInt..MaxInt
MaxInt == 3
\* rotation amounts range over -MaxRot..MaxRot
MaxRot == 7
\* requested output lengths / duplicate counts range up to MaxCount
MaxCount == 5
\* period multipliers k range over -MaxK..MaxK
MaxK == 2
\* longest generated list of chunk sizes
MaxSizes == 2
\* most lists interleaved by one call
MaxArgs == 3
\* frames of _split the call stack holds before the engine throws RangeError
StackLimit == 32

(***************************************************************************)
(* Values.                                                                 *)
(***************************************************************************)
Abs(x) == IF x < 0 THEN -x ELSE x

RECURSIVE Gcd(_, _)
Gcd(a, b) == IF b = 0 THEN a ELSE Gcd(b, a % b)

\* the finite number n/d (d # 0), in lowest terms
Rat(n, d) ==
    LET g == Gcd(Abs(n), Abs(d))
        s == IF d < 0 THEN -1 ELSE 1
    IN  [t |-> "num", n |-> (s * n) \div g, d |-> (s * d) \div g]

Num(n) == [t |-> "num", n |-> n, d |-> 1]
NaN == [t |-> "nan"]
Infinity == [t |-> "inf"]
NegInfinity == [t |-> "ninf"]
Undefined == [t |-> "undef"]
Str(s) == [t |-> "str", s |-> s]
Arr(e) == [t |-> "arr", e |-> e]
Throw(s) == [t |-> "throw", s |-> s]

\* typeof v === 'number'
IsNumber(v) == v.t \in {"num", "nan", "inf", "ninf"}
\* Array.isArray(v)
IsArray(v) == v.t = "arr"
IsThrow(v) == v.t = "throw"
\* a finite number with an integral value
IsInt(v) == v.t = "num" /\ v.d = 1

\* the sign of a number that is not NaN
Sign(v) ==
    CASE v.t = "inf" -> 1
      [] v.t = "ninf" -> -1
      [] OTHER -> IF v.n > 0 THEN 1 ELSE IF v.n < 0 THEN -1 ELSE 0

(***************************************************************************)
(* IEEE-754 arithmetic on numbers, as the JavaScript operators compute it. *)
(***************************************************************************)
JsNeg(x) ==
    CASE x.t = "num" -> Rat(-x.n, x.d)
      [] x.t = "inf" -> NegInfinity
      [] x.t = "ninf" -> Infinity
      [] OTHER -> NaN

NumAdd(x, y) ==
    IF x.t = "nan" \/ y.t = "nan" THEN NaN
    ELSE IF x.t = "num" /\ y.t = "num" THEN Rat(x.n * y.d + y.n * x.d, x.d * y.d)
    ELSE IF x.t = "num" THEN y
    ELSE IF y.t = "num" THEN x
    ELSE IF x.t = y.t THEN x ELSE NaN

NumSub(x, y) == NumAdd(x, JsNeg(y))

NumMul(x, y) ==
    IF x.t = "nan" \/ y.t = "nan" THEN NaN
    ELSE IF x.t = "num" /\ y.t = "num" THEN Rat(x.n * y.n, x.d * y.d)
    ELSE IF Sign(x) * Sign(y) = 0 THEN NaN
    ELSE IF Sign(x) * Sign(y) > 0 THEN Infinity ELSE NegInfinity

NumDiv(x, y) ==
    IF x.t = "nan" \/ y.t = "nan" THEN NaN
    ELSE IF x.t = "num" /\ y.t = "num" THEN
        IF y.n = 0
        THEN (IF x.n = 0 THEN NaN ELSE IF x.n > 0 THEN Infinity ELSE NegInfinity)
        ELSE Rat(x.n * y.d, x.d * y.n)
    ELSE IF x.t # "num" /\ y.t # "num" THEN NaN
    ELSE IF y.t # "num" THEN Num(0)
    ELSE IF Sign(x) * (IF Sign(y) < 0 THEN -1 ELSE 1) > 0 THEN Infinity ELSE NegInfinity

\* x < y for numbers that are not NaN
NumLess(x, y) ==
    IF x.t = "num" /\ y.t = "num" THEN x.n * y.d < y.n * x.d
    ELSE IF x.t = y.t THEN FALSE
    ELSE x.t = "ninf" \/ y.t = "inf"

\* Math.trunc
JsTrunc(x) ==
    IF x.t # "num" THEN x
    ELSE IF x.n >= 0 THEN Num(x.n \div x.d) ELSE Num(-((-x.n) \div x.d))

\* Math.floor
JsFloor(x) == IF x.t # "num" THEN x ELSE Num(x.n \div x.d)

\* the % operator: the remainder has the sign of the dividend
NumRem(x, y) ==
    IF x.t = "nan" \/ y.t = "nan" THEN NaN
    ELSE IF x.t # "num" THEN NaN
    ELSE IF y.t # "num" THEN x
    ELSE IF y.n = 0 THEN NaN
    ELSE NumSub(x, NumMul(y, JsTrunc(NumDiv(x, y))))

\* Math.max and Math.min of two numbers
NumMax(x, y) ==
    IF x.t = "nan" \/ y.t = "nan" THEN NaN ELSE IF NumLess(x, y) THEN y ELSE x

NumMin(x, y) ==
    IF x.t = "nan" \/ y.t = "nan" THEN NaN ELSE IF NumLess(y, x) THEN y ELSE x

RECURSIVE IntPow(_, _)
IntPow(x, k) == IF k = 0 THEN Num(1) ELSE NumMul(x, IntPow(x, k - 1))

\* Math.pow; the exponents of the model are integers
NumPow(x, y) ==
    IF y.t = "num" /\ y.n = 0 THEN Num(1)
    ELSE IF x.t = "nan" \/ ~IsInt(y) THEN NaN
    ELSE IF y.n > 0 THEN IntPow(x, y.n)
    ELSE NumDiv(Num(1), IntPow(x, -y.n))

(***************************************************************************)
(* Conversions between strings, Arrays and numbers (ToString, ToNumber).   *)
(***************************************************************************)
InfinityChars == <<"I", "n", "f", "i", "n", "i", "t", "y">>

Digit(k) == <<"0", "1", "2", "3", "4", "5", "6", "7", "8", "9">>[k + 1]

RECURSIVE NatChars(_)
NatChars(n) == IF n < 10 THEN <<Digit(n)>> ELSE NatChars(n \div 10) \o <<Digit(n % 10)>>

IntChars(n) == IF n < 0 THEN <<"-">> \o NatChars(-n) ELSE NatChars(n)

\* String(v).  A number that is not an integer is written n/d: the model's
\* inputs are integers, and no fraction it computes is ever made a string.
RECURSIVE JsToString(_)
RECURSIVE Join(_)
Join(e) ==
    IF Len(e) = 0 THEN <<>>
    ELSE LET h == IF Head(e).t = "undef" THEN <<>> ELSE JsToString(Head(e))
         IN  IF Len(e) = 1 THEN h ELSE h \o <<",">> \o Join(Tail(e))
JsToString(v) ==
    CASE v.t = "num" -> IF v.d = 1 THEN IntChars(v.n)
                        ELSE IntChars(v.n) \o <<"/">> \o IntChars(v.d)
      [] v.t = "nan" -> <<"N", "a", "N">>
      [] v.t = "inf" -> InfinityChars
      [] v.t = "ninf" -> <<"-">> \o InfinityChars
      [] v.t = "undef" -> <<"u", "n", "d", "e", "f", "i", "n", "e", "d">>
      [] v.t = "str" -> v.s
      [] v.t = "arr" -> Join(v.e)

DigitValue(c) == CHOOSE k \in 0 .. 9 : Digit(k) = c
IsDigit(c) == \E k \in 0 .. 9 : Digit(k) = c

RECURSIVE CharsNat(_)
CharsNat(s) ==
    IF Len(s) = 0 THEN 0
    ELSE 10 * CharsNat(SubSeq(s, 1, Len(s) - 1)) + DigitValue(s[Len(s)])

\* Number(string): the empty string is 0, a decimal integer is its value,
\* anything else the model can build (text, lists with commas) is NaN
StringToNumber(s) ==
    LET body == IF Len(s) > 0 /\ s[1] = "-" THEN Tail(s) ELSE s
    IN  IF Len(s) = 0 THEN Num(0)
        ELSE IF s = InfinityChars THEN Infinity
        ELSE IF s = <<"-">> \o InfinityChars THEN NegInfinity
        ELSE IF Len(body) > 0 /\ \A i \in 1 .. Len(body) : IsDigit(body[i])
             THEN (IF Len(body) < Len(s) THEN Num(-CharsNat(body)) ELSE Num(CharsNat(body)))
        ELSE NaN

\* Number(v): what an arithmetic operator makes of its operand
JsToNumber(v) ==
    CASE IsNumber(v) -> v
      [] v.t = "undef" -> NaN
      [] OTHER -> StringToNumber(IF v.t = "str" THEN v.s ELSE JsToString(v))

\* a + b: string concatenation unless both operands are numbers or undefined
JsPlus(x, y) ==
    IF x.t \in {"str", "arr"} \/ y.t \in {"str", "arr"}
    THEN Str(JsToString(x) \o JsToString(y))
    ELSE NumAdd(JsToNumber(x), JsToNumber(y))

JsMinus(x, y) == NumSub(JsToNumber(x), JsToNumber(y))
JsTimes(x, y) == NumMul(JsToNumber(x), JsToNumber(y))
JsDivide(x, y) == NumDiv(JsToNumber(x), JsToNumber(y))
JsRem(x, y) == NumRem(JsToNumber(x), JsToNumber(y))
\* a > b on numbers (false when either is NaN)
JsGreater(x, y) ==
    LET a == JsToNumber(x)
        b == JsToNumber(y)
    IN  a.t # "nan" /\ b.t # "nan" /\ NumLess(b, a)
MathMax(x, y) == NumMax(JsToNumber(x), JsToNumber(y))
MathMin(x, y) == NumMin(JsToNumber(x), JsToNumber(y))

\* a[i] for an Array a and any index value: undefined outside 0..length-1
Index(a, i) ==
    IF IsInt(i) /\ i.n >= 0 /\ i.n < Len(a.e) THEN a.e[i.n + 1] ELSE Undefined

(***************************************************************************)
(* utility.ts: toArray, fromArray, length.                                 *)
(***************************************************************************)
toArray(a) == IF IsArray(a) THEN a ELSE Arr(<<a>>)

fromArray(a, i) == IF IsArray(a) THEN Index(a, i) ELSE a

length(input) == IF IsArray(input) THEN Num(Len(input.e)) ELSE Num(1)

(***************************************************************************)
(* utility.ts: the broadcasting arithmetic.  The callback handed to        *)
(* arrayCalc is named by a record; Apply evaluates the arrow function of   *)
(* that name on two values.                                                *)
(***************************************************************************)
Apply(operation, x, y) ==
    CASE operation.name = "add" -> JsPlus(x, y)
      [] operation.name = "subtract" -> JsMinus(x, y)
      [] operation.name = "multiply" -> JsTimes(x, y)
      [] operation.name = "divide" -> JsDivide(x, y)
      [] operation.name = "mod" -> JsRem(JsPlus(JsRem(x, y), y), y)
      [] operation.name = "pow" -> NumPow(JsToNumber(x), JsToNumber(y))
      [] operation.name = "lerp" ->
            JsPlus(JsTimes(x, JsMinus(Num(1), operation.f)), JsTimes(y, operation.f))

RECURSIVE arrayCalc(_, _, _)
\* arrayCalc with the bug of taking the shorter operand's length
arrayCalc_shortest(a, b, operation) ==
    IF IsArray(b) THEN
        LET left == toArray(a)
            n == IF Len(left.e) < Len(b.e) THEN Len(left.e) ELSE Len(b.e)
        IN  Arr([i \in 1 .. n |->
                Apply(operation,
                      fromArray(left, NumRem(Num(i - 1), Num(Len(left.e)))),
                      fromArray(b, NumRem(Num(i - 1), Num(Len(b.e)))))])
    ELSE IF ~IsArray(a) THEN Apply(operation, a, b)
    ELSE Arr([i \in 1 .. Len(a.e) |-> arrayCalc(a.e[i], b, operation)])

arrayCalc(a, b, operation) ==
    IF IsArray(b) THEN
        LET left == toArray(a)
            n == IF Len(left.e) > Len(b.e) THEN Len(left.e) ELSE Len(b.e)
        IN  Arr([i \in 1 .. n |->
                Apply(operation,
                      fromArray(left, NumRem(Num(i - 1), Num(Len(left.e)))),
                      fromArray(b, NumRem(Num(i - 1), Num(Len(b.e)))))])
    ELSE IF ~IsArray(a) THEN Apply(operation, a, b)
    ELSE Arr([i \in 1 .. Len(a.e) |-> arrayCalc(a.e[i], b, operation)])

\* a default parameter value: used when the argument is undefined
Default(v, d) == IF v.t = "undef" THEN d ELSE v

add(a, b) == arrayCalc(Default(a, Num(0)), Default(b, Num(0)), [name |-> "add"])
subtract(a, b) == arrayCalc(Default(a, Num(0)), Default(b, Num(0)), [name |-> "subtract"])
multiply(a, b) == arrayCalc(Default(a, Num(0)), Default(b, Num(1)), [name |-> "multiply"])
divide(a, b) == arrayCalc(Default(a, Num(0)), Default(b, Num(1)), [name |-> "divide"])
mod(a, b) == arrayCalc(Default(a, Num(0)), Default(b, Num(12)), [name |-> "mod"])
pow(a, b) == arrayCalc(Default(a, Num(0)), Default(b, Num(1)), [name |-> "pow"])
lerp(a, b, f) ==
    arrayCalc(Default(a, Num(0)), Default(b, Num(0)),
              [name |-> "lerp", f |-> Default(f, Rat(1, 2))])

(***************************************************************************)
(* utility.ts: wrap, constrain, fold.                                      *)
(***************************************************************************)
\* _wrap with the bug of a single remainder, which keeps the dividend's sign
_wrap_singleRemainder(value, lo, hi) ==
    LET range == JsMinus(hi, lo)
    IN  JsPlus(JsRem(JsMinus(value, lo), range), lo)

_wrap(value, lo, hi) ==
    LET range == JsMinus(hi, lo)
    IN  JsPlus(JsRem(JsPlus(JsRem(JsMinus(value, lo), range), range), range), lo)

wrap(input, lo, hi) ==
    LET l == IF JsGreater(lo, hi) THEN hi ELSE lo
        h == IF JsGreater(lo, hi) THEN lo ELSE hi
    IN  IF ~IsArray(input) THEN _wrap(input, l, h)
        ELSE Arr([i \in 1 .. Len(input.e) |-> _wrap(input.e[i], l, h)])

\* constrain with the bug of Math.min and Math.max exchanged
constrain_exchanged(input, lo, hi) ==
    LET l == IF JsGreater(lo, hi) THEN hi ELSE lo
        h == IF JsGreater(lo, hi) THEN lo ELSE hi
    IN  IF ~IsArray(input) THEN MathMax(h, MathMin(l, input))
        ELSE Arr([i \in 1 .. Len(input.e) |-> MathMax(h, MathMin(l, input.e[i]))])

constrain(input, lo, hi) ==
    LET l == IF JsGreater(lo, hi) THEN hi ELSE lo
        h == IF JsGreater(lo, hi) THEN lo ELSE hi
    IN  IF ~IsArray(input) THEN MathMin(h, MathMax(l, input))
        ELSE Arr([i \in 1 .. Len(input.e) |-> MathMin(h, MathMax(l, input.e[i]))])

bound(input, lo, hi) == constrain(input, lo, hi)
clip(input, lo, hi) == constrain(input, lo, hi)
clamp(input, lo, hi) == constrain(input, lo, hi)

_map(value, inLo, inHi, outLo, outHi) ==
    JsPlus(JsTimes(JsDivide(JsMinus(value, inLo), JsMinus(inHi, inLo)),
                   JsMinus(outHi, outLo)),
           outLo)

\* Math.asin(Math.sin(v * HALF_PI)) / HALF_PI: the triangle wave of period 4
\* through (0,0), (1,1), (3,-1); computed exactly, without rounding error
Triangle(v) ==
    IF v.t # "num" THEN NaN
    ELSE LET w == NumSub(v, NumMul(Num(4), JsFloor(NumDiv(v, Num(4)))))
         IN  IF ~NumLess(Num(1), w) THEN w
             ELSE IF ~NumLess(Num(3), w) THEN NumSub(Num(2), w)
             ELSE NumSub(w, Num(4))

_fold(value, lo, hi) ==
    _map(Triangle(_map(value, lo, hi, Num(-1), Num(1))), Num(-1), Num(1), lo, hi)

fold(input, lo, hi) ==
    LET l == IF JsGreater(lo, hi) THEN hi ELSE lo
        h == IF JsGreater(lo, hi) THEN lo ELSE hi
    IN  IF ~IsArray(input) THEN _fold(input, l, h)
        ELSE Arr([i \in 1 .. Len(input.e) |-> _fold(input.e[i], l, h)])

(***************************************************************************)
(* utility.ts: the transformers rotate, duplicate, clone, stretch.         *)
(***************************************************************************)
\* rotate with the bug of a single remainder: a negative index reads undefined
rotate_singleRemainder(a, r) ==
    IF ~IsArray(a) THEN Arr(<<a>>)
    ELSE LET l == Num(Len(a.e))
         IN  Arr([i \in 1 .. Len(a.e) |-> Index(a, JsRem(JsMinus(Num(i - 1), r), l))])

\* rotate with the bug of shifting to the left for positive r
rotate_left(a, r) ==
    IF ~IsArray(a) THEN Arr(<<a>>)
    ELSE LET l == Num(Len(a.e))
         IN  Arr([i \in 1 .. Len(a.e) |->
                    Index(a, JsRem(JsPlus(JsRem(JsPlus(Num(i - 1), r), l), l), l))])

rotate(a, r) ==
    IF ~IsArray(a) THEN Arr(<<a>>)
    ELSE LET l == Num(Len(a.e))
         IN  Arr([i \in 1 .. Len(a.e) |->
                    Index(a, JsRem(JsPlus(JsRem(JsMinus(Num(i - 1), r), l), l), l))])

\* new Array(n) accepts n when it is an integer in 0 .. 2^32 - 1; every
\* integer of the model is below that limit
ValidArrayLength(n) == IsInt(n) /\ n.n >= 0

\* Array(n) has length n and no elements (n holes); flatMap calls its callback
\* for the elements an Array has, so for none of them, and returns []
duplicate(arr, duplicates) ==
    LET n == MathMax(Num(1), Default(duplicates, Num(2)))
    IN  IF ValidArrayLength(n) THEN Arr(<<>>) ELSE Throw("RangeError")

RECURSIVE Times(_, _)
\* the sequence s concatenated with itself k times
Times(s, k) == IF k = 0 THEN <<>> ELSE s \o Times(s, k - 1)

\* Array(offset).fill(a).flat(): for a number, offset copies of a flattened one
\* level; for any other offset, Array(offset) is the one-element [offset]
CloneFill(a, offset) ==
    LET elems == IF IsArray(a) THEN a.e ELSE <<a>>
    IN  IF IsNumber(offset)
        THEN (IF ValidArrayLength(offset) THEN Arr(Times(elems, offset.n))
              ELSE Throw("RangeError"))
        ELSE Arr(elems)

\* values.map((value, index) => ...) of clone
CloneMap(values, clones) ==
    IF ~IsArray(values) THEN Throw("TypeError")
    ELSE Arr([i \in 1 .. Len(values.e) |->
            LET c == IF i <= Len(clones) THEN clones[i] ELSE Undefined
            IN  IF c.t = "str" THEN Str(JsToString(values.e[i]) \o c.s)
                ELSE add(values.e[i], c)])

RECURSIVE FlatMapSeq(_, _)
\* xs.flatMap(values => CloneMap(values, clones)), left to right
FlatMapSeq(xs, clones) ==
    IF Len(xs) = 0 THEN Arr(<<>>)
    ELSE LET h == CloneMap(Head(xs), clones)
         IN  IF IsThrow(h) THEN h
             ELSE LET t == FlatMapSeq(Tail(xs), clones)
                  IN  IF IsThrow(t) THEN t ELSE Arr(h.e \o t.e)

RECURSIVE OffsetArray(_, _)
\* toArray(clones).flatMap(offset => Array(offset).fill(a).flat())
OffsetArray(a, clones) ==
    IF Len(clones) = 0 THEN Arr(<<>>)
    ELSE LET h == CloneFill(a, Head(clones))
         IN  IF IsThrow(h) THEN h
             ELSE LET t == OffsetArray(a, Tail(clones))
                  IN  IF IsThrow(t) THEN t ELSE Arr(h.e \o t.e)

\* clone(a, ...clones); clones is the Array of the rest arguments
clone(a, clones) ==
    LET arr == Default(a, Arr(<<Num(0)>>))
        offsetArray == OffsetArray(arr, clones.e)
    IN  IF IsThrow(offsetArray) THEN offsetArray
        ELSE FlatMapSeq(<<arr>> \o offsetArray.e, clones.e)

\* one pass of the loop of stretch: the element pushed for index i
StretchElement(a, i, len, mode) ==
    LET l == Num(Len(a.e))
        val == JsTimes(JsDivide(Num(i), JsMinus(len, Num(1))), JsMinus(l, Num(1)))
        a0 == Index(a, MathMax(JsTrunc(val), Num(0)))
        a1 == Index(a, JsRem(MathMin(JsPlus(JsTrunc(val), Num(1)), JsMinus(l, Num(1))), l))
    IN  lerp(a0, a1, JsRem(val, Num(1)))

\* stretch(a, len, mode): lerp takes three parameters, so the mode handed to it
\* as a fourth argument is dropped
stretch(a, len, mode) ==
    LET arr == toArray(Default(a, Arr(<<Num(0)>>)))
        n == Default(len, Num(1))
    IN  IF JsGreater(Num(2), n) THEN arr
        ELSE LET cnt == length(n)
             IN  Arr([i \in 1 .. cnt.n |-> StretchElement(arr, i - 1, cnt, mode)])

(***************************************************************************)
(* utility.ts: flatten, maximum, minimum, normalize.                       *)
(***************************************************************************)
RECURSIVE ArrayFlat(_, _)
\* the elements of e.flat(depth)
ArrayFlat(e, depth) ==
    IF Len(e) = 0 THEN <<>>
    ELSE (IF IsArray(Head(e)) /\ JsGreater(depth, Num(0))
          THEN ArrayFlat(Head(e).e, JsMinus(depth, Num(1)))
          ELSE <<Head(e)>>) \o ArrayFlat(Tail(e), depth)

flatten(a, depth) ==
    Arr(ArrayFlat(toArray(Default(a, Arr(<<Num(0)>>))).e, Default(depth, Infinity)))

RECURSIVE MathMaxOf(_)
\* Math.max(...e): -Infinity for no argument
MathMaxOf(e) == IF Len(e) = 0 THEN NegInfinity ELSE MathMax(Head(e), MathMaxOf(Tail(e)))

RECURSIVE MathMinOf(_)
\* Math.min(...e): Infinity for no argument
MathMinOf(e) == IF Len(e) = 0 THEN Infinity ELSE MathMin(Head(e), MathMinOf(Tail(e)))

maximum(a) ==
    LET arr == Default(a, Arr(<<Num(0)>>))
    IN  IF ~IsArray(arr) THEN arr ELSE MathMaxOf(flatten(arr, Undefined).e)

minimum(a) ==
    LET arr == Default(a, Arr(<<Num(0)>>))
    IN  IF ~IsArray(arr) THEN arr ELSE MathMinOf(flatten(arr, Undefined).e)

\* the condition of `range ? range : 0`: a number is truthy unless 0 or NaN
Truthy(v) == ~(v.t = "nan" \/ (v.t = "num" /\ v.n = 0))

\* normalize that divides by the range without subtracting the minimum
normalize_unshifted(a) ==
    LET arr == toArray(Default(a, Arr(<<Num(0)>>)))
        range == JsMinus(maximum(arr), minimum(arr))
    IN  divide(arr, IF Truthy(range) THEN range ELSE Num(0))

\* normalize that divides by 1 when the range is 0
normalize_unitRange(a) ==
    LET arr == toArray(Default(a, Arr(<<Num(0)>>)))
        min == minimum(arr)
        range == JsMinus(maximum(arr), min)
    IN  divide(subtract(arr, min), IF Truthy(range) THEN range ELSE Num(1))

normalize(a) ==
    LET arr == toArray(Default(a, Arr(<<Num(0)>>)))
        min == minimum(arr)
        range == JsMinus(maximum(arr), min)
        normalizedRange == IF Truthy(range) THEN range ELSE Num(0)
    IN  divide(subtract(arr, min), normalizedRange)

signedNormalize(a) == subtract(multiply(normalize(a), Num(2)), Num(1))

(***************************************************************************)
(* utility.ts: the transformers split, slice, palindrome, reverse, lookup, *)
(* lace.                                                                   *)
(***************************************************************************)
\* ToIntegerOrInfinity of an argument of Array.prototype.slice, made relative
\* to an Array of length len and clamped to 0 .. len
RelativeIndex(v, len) ==
    LET n == JsTrunc(JsToNumber(v))
    IN  CASE n.t = "nan" -> 0
          [] n.t = "inf" -> len
          [] n.t = "ninf" -> 0
          [] OTHER -> IF n.n < 0
                      THEN (IF len + n.n < 0 THEN 0 ELSE len + n.n)
                      ELSE (IF n.n > len THEN len ELSE n.n)

\* a.slice(start, end): a new Array of the elements start .. end - 1
ArraySlice(a, start, end) ==
    LET len == Len(a.e)
        k == RelativeIndex(start, len)
        final == IF end.t = "undef" THEN len ELSE RelativeIndex(end, len)
    IN  Arr(SubSeq(a.e, k + 1, final))

RECURSIVE _split(_, _, _)
\* _split that cuts every chunk with the first size: the list is not rotated
_split_firstSize(a, s, depth) ==
    IF depth >= StackLimit THEN Throw("RangeError")
    ELSE IF JsGreater(Index(s, Num(0)), Num(0))
    THEN LET arr == ArraySlice(a, Num(0), Index(s, Num(0)))
             rest == ArraySlice(a, Index(s, Num(0)), Num(Len(a.e)))
         IN  IF Len(rest.e) < 1 THEN Arr(<<arr>>)
             ELSE LET tail == _split(rest, s, depth + 1)
                  IN  IF IsThrow(tail) THEN tail ELSE Arr(<<arr>> \o tail.e)
    ELSE _split(a, toArray(rotate(s, Num(-1))), depth + 1)

\* _split(a, s) entered with depth frames of _split below it on the call
\* stack; the recursive call goes through split, whose toArray leaves the
\* two Arrays as they are
_split(a, s, depth) ==
    IF depth >= StackLimit THEN Throw("RangeError")
    ELSE IF JsGreater(Index(s, Num(0)), Num(0))
    THEN LET arr == ArraySlice(a, Num(0), Index(s, Num(0)))
             rest == ArraySlice(a, Index(s, Num(0)), Num(Len(a.e)))
         IN  IF Len(rest.e) < 1 THEN Arr(<<arr>>)
             ELSE LET tail == _split(toArray(rest), toArray(rotate(s, Num(-1))), depth + 1)
                  IN  IF IsThrow(tail) THEN tail ELSE Arr(<<arr>> \o tail.e)
    ELSE _split(toArray(a), toArray(rotate(s, Num(-1))), depth + 1)

split(a, s) ==
    _split(toArray(Default(a, Arr(<<Num(0)>>))), toArray(Default(s, Arr(<<Num(1)>>))), 0)

\* Array.prototype.reverse, on the elements of an Array
ArrayReverse(a) == Arr([i \in 1 .. Len(a.e) |-> a.e[Len(a.e) + 1 - i]])

reverse(a) ==
    LET arr == Default(a, Arr(<<Num(0)>>))
    IN  IF ~IsArray(arr) THEN Arr(<<arr>>) ELSE ArrayReverse(ArraySlice(arr, Undefined, Undefined))

\* palindrome whose noDouble drops only the last element of the reverse
palindrome_keepFirst(arr, noDouble) ==
    IF arr.t = "undef" THEN Arr(<<Num(0)>>)
    ELSE IF ~IsArray(arr) THEN Arr(<<arr>>)
    ELSE LET rev == ArrayReverse(ArraySlice(arr, Undefined, Undefined))
         IN  Arr(arr.e \o (IF noDouble
                           THEN ArraySlice(rev, Num(0), Num(Len(rev.e) - 1))
                           ELSE rev).e)

\* palindrome(arr, noDouble); noDouble is a boolean
palindrome(arr, noDouble) ==
    IF arr.t = "undef" THEN Arr(<<Num(0)>>)
    ELSE IF ~IsArray(arr) THEN Arr(<<arr>>)
    ELSE LET rev == ArrayReverse(ArraySlice(arr, Undefined, Undefined))
         IN  Arr(arr.e \o (IF noDouble
                           THEN ArraySlice(rev, Num(1), Num(Len(rev.e) - 1))
                           ELSE rev).e)

RECURSIVE SliceLoop(_, _, _, _, _)
\* the for loop of slice from index i on, with the chunks arr pushed and the
\* position _s reached so far: the final arr and _s
SliceLoop(a, s, i, _s, arr) ==
    IF i >= Len(s.e) THEN [arr |-> arr, _s |-> _s]
    ELSE IF JsGreater(s.e[i + 1], Num(0))
    THEN LET _t == JsPlus(_s, s.e[i + 1])
         IN  SliceLoop(a, s, i + 1, _t, Append(arr, ArraySlice(a, _s, _t)))
    ELSE SliceLoop(a, s, i + 1, _s, arr)

\* slice that never attaches the rest
slice_dropRest(a, s, r) ==
    Arr(SliceLoop(toArray(Default(a, Arr(<<Num(0)>>))),
                  toArray(Default(s, Arr(<<Num(0)>>))), 0, Num(0), <<>>).arr)

\* slice(a, s, r); r is a boolean
slice(a, s, r) ==
    LET array == toArray(Default(a, Arr(<<Num(0)>>)))
        loop == SliceLoop(array, toArray(Default(s, Arr(<<Num(0)>>))), 0, Num(0), <<>>)
        rest == ArraySlice(array, loop._s, Num(Len(array.e)))
    IN  IF r /\ Len(rest.e) > 0 THEN Arr(Append(loop.arr, rest)) ELSE Arr(loop.arr)

\* isNaN(v)
IsNaN(v) == JsToNumber(v).t = "nan"

RECURSIVE lookup(_, _)
\* lookup with a single remainder: a negative index reads outside the Array
lookup_singleRemainder(idx, arr) ==
    LET indices == toArray(Default(idx, Arr(<<Num(0)>>))).e
        values == toArray(Default(arr, Arr(<<Num(0)>>)))
        len == Num(Len(values.e))
        Pushed(v) ==
            IF IsArray(v) THEN <<lookup(v, values)>>
            ELSE IF ~IsNaN(v)
            THEN <<Index(values, JsRem(JsFloor(JsToNumber(v)), len))>>
            ELSE <<>>
        Loop[i \in 0 .. Len(indices)] ==
            IF i = 0 THEN <<>> ELSE Loop[i - 1] \o Pushed(indices[i])
    IN  Arr(Loop[Len(indices)])

lookup(idx, arr) ==
    LET indices == toArray(Default(idx, Arr(<<Num(0)>>))).e
        values == toArray(Default(arr, Arr(<<Num(0)>>)))
        len == Num(Len(values.e))
        \* what one pass of the loop pushes for the index v
        Pushed(v) ==
            IF IsArray(v) THEN <<lookup(v, values)>>
            ELSE IF ~IsNaN(v)
            THEN <<Index(values, JsRem(JsPlus(JsRem(JsFloor(JsToNumber(v)), len), len), len))>>
            ELSE <<>>
        Loop[i \in 0 .. Len(indices)] ==
            IF i = 0 THEN <<>> ELSE Loop[i - 1] \o Pushed(indices[i])
    IN  Arr(Loop[Len(indices)])

\* one pass of the outer loop of lace: the elements pushed for index i
LaceRow(arrs, i) ==
    LET Row[k \in 0 .. Len(arrs)] ==
            IF k = 0 THEN <<>>
            ELSE LET v == Index(arrs[k], Num(i))
                 IN  IF v.t # "undef" THEN Append(Row[k - 1], v) ELSE Row[k - 1]
    IN  Row[Len(arrs)]

\* the longest length found by the first loop of lace
LaceLength(arrs) ==
    LET Longest[k \in 0 .. Len(arrs)] ==
            IF k = 0 THEN Num(0) ELSE MathMax(Num(Len(arrs[k].e)), Longest[k - 1])
    IN  Longest[Len(arrs)].n

\* the shortest length of the Arrays arrs
LaceShortest(arrs) ==
    LET Shortest[k \in 1 .. Len(arrs)] ==
            IF k = 1 THEN Num(Len(arrs[1].e))
            ELSE MathMin(Num(Len(arrs[k].e)), Shortest[k - 1])
    IN  Shortest[Len(arrs)].n

\* lace that stops at the end of the shortest input
lace_shortest(arrs) ==
    IF Len(arrs.e) = 0 THEN Arr(<<Num(0)>>)
    ELSE LET lists == [k \in 1 .. Len(arrs.e) |-> toArray(arrs.e[k])]
             Rows[i \in 0 .. LaceShortest(lists)] ==
                IF i = 0 THEN <<>> ELSE Rows[i - 1] \o LaceRow(lists, i - 1)
         IN  Arr(Rows[LaceShortest(lists)])

\* lace(...arrs); arrs is the Array of the arguments
lace(arrs) ==
    IF Len(arrs.e) = 0 THEN Arr(<<Num(0)>>)
    ELSE LET lists == [k \in 1 .. Len(arrs.e) |-> toArray(arrs.e[k])]
             l == LaceLength(lists)
             Rows[i \in 0 .. l] ==
                IF i = 0 THEN <<>> ELSE Rows[i - 1] \o LaceRow(lists, i - 1)
         IN  Arr(Rows[l])

(***************************************************************************)
(* utility.ts: spray, repeat.                                              *)
(***************************************************************************)
\* values[c % values.length]: undefined when values is empty (c % 0 is NaN)
SprayValue(values, c) ==
    IF Len(values.e) = 0 THEN Undefined ELSE values.e[(c % Len(values.e)) + 1]

\* the loop of spray over the first i beats: arr and the counter c
RECURSIVE SprayLoop(_, _, _)
SprayLoop(values, beats, i) ==
    IF i = 0 THEN [arr |-> beats.e, c |-> 0]
    ELSE LET before == SprayLoop(values, beats, i - 1)
         IN  IF JsGreater(beats.e[i], Num(0))
             THEN [arr |-> [before.arr EXCEPT ![i] = SprayValue(values, before.c)],
                   c |-> before.c + 1]
             ELSE before

\* spray taking the value at the position of the beat instead of the next one
spray_positional(values, beats) ==
    LET v == toArray(Default(values, Arr(<<Num(0)>>)))
        b == toArray(Default(beats, Arr(<<Num(0)>>)))
    IN  Arr([i \in 1 .. Len(b.e) |->
                IF JsGreater(b.e[i], Num(0)) THEN SprayValue(v, i - 1) ELSE b.e[i]])

spray(values, beats) ==
    LET v == toArray(Default(values, Arr(<<Num(0)>>)))
        b == toArray(Default(beats, Arr(<<Num(0)>>)))
    IN  Arr(SprayLoop(v, b, Len(b.e)).arr)

\* the passes of the loop for (k = 0; k < r; k++) after
\* r = (isNaN(r) || r < 0) ? 0 : r; -1 stands for a loop without end
RepeatCount(r) ==
    LET n == JsToNumber(r)
    IN  IF n.t = "nan" \/ NumLess(n, Num(0)) THEN 0
        ELSE IF n.t = "inf" THEN -1
        ELSE -((-n.n) \div n.d)

\* the loop of repeat over the first i elements of arr; pushing without end
\* exhausts the memory
RECURSIVE RepeatLoop(_, _, _)
RepeatLoop(arr, rep, i) ==
    IF i = 0 THEN Arr(<<>>)
    ELSE LET a == RepeatLoop(arr, rep, i - 1)
             r == RepeatCount(IF Len(rep.e) = 0 THEN Undefined
                              ELSE rep.e[((i - 1) % Len(rep.e)) + 1])
         IN  IF IsThrow(a) THEN a
             ELSE IF r < 0 THEN Throw("OutOfMemory")
             ELSE Arr(a.e \o Times(<<arr.e[i]>>, r))

\* repeat using the first count for every element
repeat_firstCount(arr, rep) ==
    LET a == toArray(Default(arr, Arr(<<Num(0)>>)))
        r == toArray(Default(rep, Num(1)))
    IN  RepeatLoop(a, IF Len(r.e) = 0 THEN r ELSE Arr(<<r.e[1]>>), Len(a.e))

repeat(arr, rep) ==
    LET a == toArray(Default(arr, Arr(<<Num(0)>>)))
    IN  RepeatLoop(a, toArray(Default(rep, Num(1))), Len(a.e))

(***************************************************************************)
(* utility.ts: unique, padding.                                            *)
(***************************************************************************)
\* [...new Set(e)]: the first occurrence of every value; an Array is an
\* object, equal to itself only
RECURSIVE SetOrder(_)
SetOrder(e) ==
    IF Len(e) = 0 THEN <<>>
    ELSE LET front == SetOrder(SubSeq(e, 1, Len(e) - 1))
             last == e[Len(e)]
         IN  IF ~IsArray(last) /\ \E i \in 1 .. Len(front) : front[i] = last
             THEN front ELSE Append(front, last)

\* unique(a): a.reduce is not a function unless a is an Array
unique(a) ==
    LET arr == Default(a, Arr(<<Num(0)>>))
    IN  IF ~IsArray(arr) THEN Throw("TypeError")
        ELSE Arr(SetOrder(ArrayFlat(arr.e, Num(1))))

\* padding(a, length, pad, shift): Array(n) throws RangeError unless n is a
\* valid length, and a.length is undefined when a is a number
padding(a, len, pad, shift) ==
    LET arr == Default(a, Arr(<<>>))
        n == JsMinus(Default(len, Num(0)),
                     IF IsArray(arr) THEN Num(Len(arr.e)) ELSE Undefined)
    IN  IF ~ValidArrayLength(n) THEN Throw("RangeError")
        ELSE rotate(Arr(arr.e \o Times(<<Default(pad, Num(0))>>, n.n)),
                    Default(shift, Num(0)))

(***************************************************************************)
(* gen-basic.js: the inclusive spread generators.                          *)
(***************************************************************************)
\* the loop shared by the two generators: new Array(len) filled with
\* Math.pow(i / (len - 1), exp) * (hi - lo) + lo, after lo and hi are
\* exchanged when lo > hi
SpreadInclusiveLoop(len, lo, hi, exp) ==
    LET swap == JsGreater(lo, hi)
        low == IF swap THEN hi ELSE lo
        range == JsMinus(IF swap THEN lo ELSE hi, low)
    IN  IF ~ValidArrayLength(len) THEN Throw("RangeError")
        ELSE Arr([k \in 1 .. len.n |->
                JsPlus(JsTimes(NumPow(JsDivide(Num(k - 1), JsMinus(len, Num(1))), exp),
                               range), low)])

\* spreadInclusiveFloat(len=1, lo=len, hi=0); the exponent 1 stands for no
\* Math.pow
spreadInclusiveFloat(len, lo, hi) ==
    LET n == Default(len, Num(1))
    IN  SpreadInclusiveLoop(n, Default(lo, n), Default(hi, Num(0)), Num(1))

\* the first declaration of the name spreadInclusiveFloatExp
spreadInclusiveFloatExp_first(len, lo, hi, exp) ==
    LET n == Default(len, Num(1))
    IN  SpreadInclusiveLoop(n, Default(lo, n), Default(hi, Num(0)),
                            JsToNumber(Default(exp, Num(1))))

\* the second declaration of the name spreadInclusiveFloatExp: its first
\* statement calls spreadinclusive_f, a name declared nowhere
spreadInclusiveFloatExp_second(len, lo, hi, exp) == Throw("ReferenceError")

\* function declarations are bound before the first statement runs, the
\* later of two declarations of one name replacing the earlier, so the
\* assignment to exports.spreadInclusiveFloatExp stores the second one
spreadInclusiveFloatExp(len, lo, hi, exp) ==
    spreadInclusiveFloatExp_second(len, lo, hi, exp)

(***************************************************************************)
(* utility.ts: invert.                                                     *)
(***************************************************************************)
\* the range invert flips against: the least and the greatest leaf when no
\* centre is given, the centre twice when no high value is given
InvertRange(a, lo, hi) ==
    IF lo.t = "undef" THEN [lo |-> minimum(a), hi |-> maximum(a)]
    ELSE IF hi.t = "undef" THEN [lo |-> lo, hi |-> lo]
    ELSE [lo |-> lo, hi |-> hi]

RECURSIVE invert_localRange(_, _, _)
\* invert with the bug of handing a nested list the arguments lo and hi as
\* given, so that without them it is flipped against its own least and
\* greatest leaf
invert_localRange(a, lo, hi) ==
    LET arr == toArray(Default(a, Arr(<<Num(0)>>)))
        range == InvertRange(arr, lo, hi)
    IN  Arr([i \in 1 .. Len(arr.e) |->
            IF IsArray(arr.e[i]) THEN invert_localRange(arr.e[i], lo, hi)
            ELSE JsPlus(JsMinus(range.hi, arr.e[i]), range.lo)])

RECURSIVE invert(_, _, _)
invert(a, lo, hi) ==
    LET arr == toArray(Default(a, Arr(<<Num(0)>>)))
        range == InvertRange(arr, lo, hi)
    IN  Arr([i \in 1 .. Len(arr.e) |->
            IF IsArray(arr.e[i]) THEN invert(arr.e[i], range.lo, range.hi)
            ELSE JsPlus(JsMinus(range.hi, arr.e[i]), range.lo)])

(***************************************************************************)
(* Arrays as objects.  The operators above compute with the contents of    *)
(* Arrays; the operators below compute with Arrays held in a heap, so that *)
(* a write to an Array and two references to one Array can be told apart.  *)
(* A heap is a sequence of Arrays, an Array is the sequence of its slots, a *)
(* slot is a primitive value or a reference to an Array of the heap.  Each  *)
(* function returns the heap it leaves and the slot it returns.            *)
(***************************************************************************)
Ref(id) == [t |-> "ref", id |-> id]
\* Array.isArray(v) for a slot v
IsRef(v) == v.t = "ref"

\* an Array literal or constructor: a new Array with the given slots
HeapNew(h, slots) == [heap |-> Append(h, slots), ret |-> Ref(Len(h) + 1)]

RECURSIVE Alloc(_, _)
RECURSIVE AllocAll(_, _)
\* the values vs built in the heap h one after the other: the heap and the
\* slots of the values
AllocAll(h, vs) ==
    IF Len(vs) = 0 THEN [heap |-> h, slots |-> <<>>]
    ELSE LET node == Alloc(h, Head(vs))
             rest == AllocAll(node.heap, Tail(vs))
         IN  [heap |-> rest.heap, slots |-> <<node.ret>> \o rest.slots]

\* the value v built in the heap h, a new Array for every Array of v
Alloc(h, v) ==
    IF ~IsArray(v) THEN [heap |-> h, ret |-> v]
    ELSE LET built == AllocAll(h, v.e)
         IN  HeapNew(built.heap, built.slots)

RECURSIVE Deref(_, _)
\* the contents of the slot v, at every depth
Deref(h, v) ==
    IF IsRef(v) THEN Arr([i \in 1 .. Len(h[v.id]) |-> Deref(h, h[v.id][i])]) ELSE v

\* a.slice() and [...a] with the bug of returning a itself
ShallowCopy_alias(h, a) == [heap |-> h, ret |-> a]

\* a.slice() and [...a]: a new Array with the slots of a
ShallowCopy(h, a) == HeapNew(h, h[a.id])

\* a.reverse(): reverses the Array a itself
ReverseInPlace(h, a) ==
    [heap |-> [h EXCEPT ![a.id] = ArrayReverse(Arr(@)).e], ret |-> a]

\* a default parameter value followed by toArray: the Array a itself, or a
\* new Array
NodeArgument(h, a, default) ==
    IF a.t = "undef" THEN HeapNew(h, default)
    ELSE IF IsRef(a) THEN [heap |-> h, ret |-> a]
    ELSE HeapNew(h, <<a>>)

\* a default parameter value: a new Array when the argument is undefined
DefaultOnHeap(h, a, default) ==
    IF a.t = "undef" THEN HeapNew(h, default) ELSE [heap |-> h, ret |-> a]

reverseOnHeap(h, a) ==
    LET arr == DefaultOnHeap(h, a, <<Num(0)>>)
    IN  IF ~IsRef(arr.ret) THEN HeapNew(arr.heap, <<arr.ret>>)
        ELSE LET copy == ShallowCopy(arr.heap, arr.ret)
             IN  ReverseInPlace(copy.heap, copy.ret)

palindromeOnHeap(h, arr, noDouble) ==
    IF arr.t = "undef" THEN HeapNew(h, <<Num(0)>>)
    ELSE IF ~IsRef(arr) THEN HeapNew(h, <<arr>>)
    ELSE LET copy == ShallowCopy(h, arr)
             rev == ReverseInPlace(copy.heap, copy.ret)
             cut == IF noDouble
                    THEN HeapNew(rev.heap,
                                 ArraySlice(Arr(rev.heap[rev.ret.id]), Num(1),
                                            Num(Len(rev.heap[rev.ret.id]) - 1)).e)
                    ELSE rev
         IN  HeapNew(cut.heap, cut.heap[arr.id] \o cut.heap[cut.ret.id])

\* the loop of rotate fills a new Array with slots of a
rotateOnHeap(h, a, r) ==
    LET arr == DefaultOnHeap(h, a, <<Num(0)>>)
    IN  IF ~IsRef(arr.ret) THEN HeapNew(arr.heap, <<arr.ret>>)
        ELSE HeapNew(arr.heap, rotate(Arr(arr.heap[arr.ret.id]), Default(r, Num(0))).e)

\* spray: arr is a copy of beats, and the loop writes into arr
sprayOnHeap(h, values, beats) ==
    LET v == NodeArgument(h, values, <<Num(0)>>)
        b == NodeArgument(v.heap, beats, <<Num(0)>>)
        arr == ShallowCopy(b.heap, b.ret)
        vals == Arr(arr.heap[v.ret.id])
        n == Len(arr.heap[b.ret.id])
        \* the heap and the counter c after the passes for the indices below i
        Loop[i \in 0 .. n] ==
            IF i = 0 THEN [heap |-> arr.heap, c |-> 0]
            ELSE LET before == Loop[i - 1]
                 IN  IF JsGreater(Deref(before.heap, before.heap[b.ret.id][i]), Num(0))
                     THEN [heap |-> [before.heap EXCEPT ![arr.ret.id][i] =
                                        Index(vals, JsRem(Num(before.c), Num(Len(vals.e))))],
                           c |-> before.c + 1]
                     ELSE before
    IN  [heap |-> Loop[n].heap, ret |-> arr.ret]

\* typeof v
TypeOf(v) ==
    CASE IsNumber(v) -> "number"
      [] v.t = "str" -> "string"
      [] v.t = "undef" -> "undefined"
      [] OTHER -> "object"

\* array.findIndex(value => typeof value === type): 0-based, -1 if none
FindIndexOfType(slots, type) ==
    IF \E i \in 1 .. Len(slots) : TypeOf(slots[i]) = type
    THEN (CHOOSE i \in 1 .. Len(slots) :
            /\ TypeOf(slots[i]) = type
            /\ \A j \in 1 .. i - 1 : TypeOf(slots[j]) # type) - 1
    ELSE -1

\* array.splice(index, 1): removes the slot at index from the Array a itself
SpliceOne(h, a, index) ==
    [h EXCEPT ![a.id] = SubSeq(@, 1, index) \o SubSeq(@, index + 2, Len(@))]

RECURSIVE FilterLoop(_, _, _, _)
\* the loops of filterType over the types, a sequence of type names: the
\* heap and the slots pushed to filteredArray
FilterLoop(h, array, types, filteredArray) ==
    IF Len(types) = 0 THEN [heap |-> h, slots |-> filteredArray]
    ELSE LET index == FindIndexOfType(h[array.id], Head(types))
         IN  IF index = -1 THEN FilterLoop(h, array, Tail(types), filteredArray)
             ELSE FilterLoop(SpliceOne(h, array, index), array, types,
                             Append(filteredArray, h[array.id][index + 1]))

\* filterType(a, t); t is a sequence of type names
filterTypeOnHeap(h, a, t) ==
    LET array == IF a.t = "undef" THEN HeapNew(h, <<Num(0)>>)
                 ELSE IF IsRef(a) THEN ShallowCopy(h, a)
                 ELSE HeapNew(h, <<a>>)
        loop == FilterLoop(array.heap, array.ret, t, <<>>)
    IN  HeapNew(loop.heap, loop.slots)

\* lace(...arrs): the rest parameter is a new Array of the argument slots;
\* the first loop writes toArray(arrs[i]) into it
laceOnHeap(h, arguments) ==
    IF Len(arguments) = 0 THEN HeapNew(h, <<Num(0)>>)
    ELSE LET arrs == HeapNew(h, arguments)
             First[i \in 0 .. Len(arguments)] ==
                IF i = 0 THEN arrs.heap
                ELSE LET list == NodeArgument(First[i - 1], First[i - 1][arrs.ret.id][i],
                                              <<Undefined>>)
                     IN  [list.heap EXCEPT ![arrs.ret.id][i] = list.ret]
             filled == First[Len(arguments)]
             lists == [k \in 1 .. Len(arguments) |-> Arr(filled[filled[arrs.ret.id][k].id])]
             l == LaceLength(lists)
             Rows[i \in 0 .. l] ==
                IF i = 0 THEN <<>> ELSE Rows[i - 1] \o LaceRow(lists, i - 1)
         IN  HeapNew(filled, Rows[l])

\* stretch: toArray(a) is a itself for an Array, and that is returned for
\* len < 2; otherwise the loop pushes the results of lerp to a new Array
stretchOnHeap(h, a, len, mode) ==
    LET arr == NodeArgument(h, a, <<Num(0)>>)
    IN  IF JsGreater(Num(2), Default(len, Num(1))) THEN arr
        ELSE Alloc(arr.heap, stretch(Deref(arr.heap, arr.ret), len, mode))

\* arrayCalc builds its result with Array.from and map, so every Array of
\* the result is new
arrayCalcOnHeap(h, a, b, operation) ==
    Alloc(h, arrayCalc(Deref(h, a), Deref(h, b), operation))

addOnHeap(h, a, b) ==
    arrayCalcOnHeap(h, Default(a, Num(0)), Default(b, Num(0)), [name |-> "add"])

(***************************************************************************)
(* Inputs.  Lists are built from integer leaves; the nested lists and the  *)
(* longer flat lists are the examples of the library's documentation.      *)
(***************************************************************************)
\* the Array of the integers of the TLA+ sequence s
Ints(s) == Arr([i \in 1 .. Len(s) |-> Num(s[i])])

Leaves == {Num(-1), Num(0), Num(2)}

\* every flat list of 1 .. MaxLen leaves
FlatLists == {Arr(s) : s \in UNION {[1 .. k -> Leaves] : k \in 1 .. MaxLen}}

DocLists ==
    {Ints(<<1, 2, 3, 4>>), Ints(<<1, 2, 3>>), Ints(<<0, 10>>), Ints(<<0, 7, 12>>),
     Ints(<<0, 5, 7>>), Ints(<<2, 3, 4>>)}

NestedLists ==
    {Arr(<<Num(1), Ints(<<2, 3>>)>>),
     Arr(<<Num(10), Ints(<<20, 30, 40>>)>>),
     Arr(<<Num(0), Arr(<<Num(1), Ints(<<2, 3>>)>>), Ints(<<4, 5>>), Num(6)>>),
     Arr(<<Num(0), Num(1), Ints(<<2, 3>>)>>),
     Arr(<<Ints(<<5, 7>>), Num(10)>>),
     Arr(<<Num(0), Num(5), Ints(<<7, 12>>)>>),
     Arr(<<Ints(<<3>>), Num(4)>>)}

Lists == FlatLists \cup DocLists \cup NestedLists

\* bases and exponents whose powers stay within the integers TLC computes
PowLists ==
    FlatLists \cup {Ints(<<1, 2, 3, 4>>), Ints(<<2, 3, 4>>),
                    Arr(<<Num(1), Ints(<<2, 3>>)>>), Arr(<<Ints(<<3>>), Num(4)>>)}

\* the integers -MaxInt .. MaxInt
SmallInts == {Num(k) : k \in -MaxInt .. MaxInt}

\* numbers: integers, a fraction and the two infinities
Numbers == SmallInts \cup {Rat(1, 2), Rat(-5, 2), Infinity, NegInfinity}

\* clone offsets
Offsets == {Num(-12), Num(0), Num(1), Num(12)}

OffsetLists == {Arr(s) : s \in UNION {[1 .. k -> Offsets] : k \in 1 .. MaxLen}}

InterpolationModes == {"none", "linear", "cosine", "cubic"}

\* indices: the integers -MaxInt .. MaxInt and three values that are no number
IndexLeaves == SmallInts \cup {NaN, Undefined, Str(<<"c">>)}

\* every flat list of 1 .. MaxSizes indices, and two nested lists of indices
IndexLists ==
    {Arr(s) : s \in UNION {[1 .. k -> IndexLeaves] : k \in 1 .. MaxSizes}}
        \cup {Arr(<<Ints(<<0, 5>>), Str(<<"c">>), Arr(<<Num(-1), Ints(<<-4>>)>>)>>),
              Arr(<<Num(7), Ints(<<-7, 2>>)>>)}

\* the lists looked up in
ValueLists == DocLists \cup NestedLists

\* the lists interleaved, the empty list and a single number among them
LaceLists == DocLists \cup NestedLists \cup {Ints(<<>>), Num(2)}

\* the Arrays built in the heap: nested lists, flat lists, the empty list
HeapLists == NestedLists \cup {Ints(<<0, 7, 12>>), Ints(<<1, 2, 3>>), Ints(<<>>)}

\* lists of values of several types, the first the example of filterType
MixedLists ==
    {Arr(<<Num(0), Num(1), Ints(<<1, 2>>), Str(<<"f", "o", "o">>), Num(2), Rat(157, 50),
           Undefined>>),
     Arr(<<Str(<<"c">>), Ints(<<5, 7>>), Num(10), Str(<<"d">>)>>),
     Arr(<<Ints(<<3>>), Num(4)>>)}

\* the second argument of filterType, as the sequence toArray makes of it
TypeLists == {<<"number">>, <<"string">>, <<"object">>, <<"string", "number">>}

\* what a caller writes into an Array it holds
Marker == Str(<<"x">>)

\* the lists normalized: Lists, the two examples of the documentation and a
\* nested list whose leaves are all equal
NormalizeLists ==
    Lists \cup {Ints(<<0, 1, 2, 3, 4>>),
                Arr(<<Num(5), Arr(<<Num(12), Ints(<<4, 17>>)>>), Num(3), Num(1)>>),
                Arr(<<Num(2), Arr(<<Num(2), Ints(<<2>>)>>), Num(2)>>)}

\* the lists cut into chunks: Lists, one list longer than every size list and
\* the empty list
ChunkLists == Lists \cup {Ints(<<1, 2, 3, 4, 5, 6, 7>>), Ints(<<>>)}

\* chunk sizes: every list of 1 .. MaxSizes sizes in 0 .. MaxInt, the empty
\* list, a list with a negative size and a single number
SizeLists ==
    {Ints(s) : s \in UNION {[1 .. k -> 0 .. MaxInt] : k \in 1 .. MaxSizes}}
        \cup {Ints(<<>>), Ints(<<-1, 2>>), Num(2)}

\* the values sprayed: lists, the empty list, a single number, no argument
SprayValues == ValueLists \cup {Ints(<<>>), Num(7), Undefined}

\* the beats: flat lists of leaves, a list with a fraction among the beats,
\* one with the infinities, the empty list, a single number, no argument
BeatLists ==
    FlatLists \cup {Arr(<<Num(1), Num(0), Num(0), Num(1), Num(1), Num(0), Num(1),
                          Rat(3, 10), Num(0)>>),
                    Arr(<<NegInfinity, Infinity, Rat(-5, 2), NaN>>),
                    Ints(<<>>), Num(1), Undefined}

\* repeat counts: every list of 1 .. MaxSizes counts in -1 .. MaxCount or NaN,
\* a fraction, an unbounded count, the empty list, single numbers, no argument
CountLists ==
    {Arr(s) : s \in UNION {[1 .. k -> {Num(c) : c \in -1 .. MaxCount} \cup {NaN}] :
                              k \in 1 .. MaxSizes}}
        \cup {Arr(<<Rat(5, 2)>>), Arr(<<Num(1), Infinity>>), Ints(<<>>), Num(3), Num(0),
              Undefined}

(***************************************************************************)
(* The state machine: one call of a library function, then possibly a      *)
(* second call on its result.                                              *)
(***************************************************************************)
Init ==
    /\ op = "init" /\ args = <<>> /\ res = Undefined /\ prev = Undefined
    /\ heap = <<>> /\ refs = <<>>

CallAdd ==
    /\ op = "init"
    /\ UNCHANGED <<heap, refs>>
    /\ \E a \in Lists, b \in Lists :
        op' = "add" /\ args' = <<a, b>> /\ res' = add(a, b) /\ prev' = Undefined

CallSubtract ==
    /\ op = "init"
    /\ UNCHANGED <<heap, refs>>
    /\ \E a \in Lists, b \in Lists :
        op' = "subtract" /\ args' = <<a, b>> /\ res' = subtract(a, b) /\ prev' = Undefined

CallMultiply ==
    /\ op = "init"
    /\ UNCHANGED <<heap, refs>>
    /\ \E a \in Lists, b \in Lists :
        op' = "multiply" /\ args' = <<a, b>> /\ res' = multiply(a, b) /\ prev' = Undefined

CallDivide ==
    /\ op = "init"
    /\ UNCHANGED <<heap, refs>>
    /\ \E a \in Lists, b \in Lists :
        op' = "divide" /\ args' = <<a, b>> /\ res' = divide(a, b) /\ prev' = Undefined

CallMod ==
    /\ op = "init"
    /\ UNCHANGED <<heap, refs>>
    /\ \E a \in SmallInts \cup FlatLists \cup {Ints(<<-2, 4, 3, 7>>), Ints(<<>>)},
          b \in SmallInts \cup {Num(5), Num(12), Ints(<<1, 2>>)} :
        op' = "mod" /\ args' = <<a, b>> /\ res' = mod(a, b) /\ prev' = Undefined

CallPow ==
    /\ op = "init"
    /\ UNCHANGED <<heap, refs>>
    /\ \E a \in PowLists, b \in PowLists :
        op' = "pow" /\ args' = <<a, b>> /\ res' = pow(a, b) /\ prev' = Undefined

CallWrap ==
    /\ op = "init"
    /\ UNCHANGED <<heap, refs>>
    /\ \E input \in SmallInts \cup Lists, lo \in SmallInts, hi \in SmallInts :
        /\ op' = "wrap"
        /\ args' = <<input, lo, hi>>
        /\ res' = wrap(input, lo, hi)
        /\ prev' = Undefined

\* after wrap(x, lo, hi): wrap(x + k * (hi - lo), lo, hi)
CallWrapShifted ==
    /\ op = "wrap" /\ ~IsArray(args[1])
    /\ UNCHANGED <<heap, refs>>
    /\ \E k \in -MaxK .. MaxK :
        LET x == NumAdd(args[1], NumMul(Num(k), NumSub(args[3], args[2])))
        IN  /\ op' = "wrapShifted"
            /\ args' = <<args[1], args[2], args[3], Num(k)>>
            /\ prev' = res
            /\ res' = wrap(x, args[2], args[3])

CallConstrain ==
    /\ op = "init"
    /\ UNCHANGED <<heap, refs>>
    /\ \E input \in Numbers \cup Lists, lo \in SmallInts, hi \in SmallInts :
        /\ op' = "constrain"
        /\ args' = <<input, lo, hi>>
        /\ res' = constrain(input, lo, hi)
        /\ prev' = Undefined

\* after constrain(x, lo, hi): constrain, or one of its aliases, on the result
CallConstrainAgain ==
    /\ op = "constrain" /\ ~IsArray(args[1])
    /\ UNCHANGED <<heap, refs>>
    /\ \E alias \in {"constrain", "bound", "clip", "clamp"} :
        /\ op' = "constrainAgain"
        /\ args' = <<args[1], args[2], args[3], alias>>
        /\ prev' = res
        /\ res' = CASE alias = "constrain" -> constrain(res, args[2], args[3])
                    [] alias = "bound" -> bound(res, args[2], args[3])
                    [] alias = "clip" -> clip(res, args[2], args[3])
                    [] alias = "clamp" -> clamp(res, args[2], args[3])

CallFold ==
    /\ op = "init"
    /\ UNCHANGED <<heap, refs>>
    /\ \E input \in SmallInts \cup Lists, lo \in SmallInts, hi \in SmallInts :
        /\ op' = "fold"
        /\ args' = <<input, lo, hi>>
        /\ res' = fold(input, lo, hi)
        /\ prev' = Undefined

CallRotate ==
    /\ op = "init"
    /\ UNCHANGED <<heap, refs>>
    /\ \E a \in Lists \cup {Ints(<<>>)}, r \in -MaxRot .. MaxRot :
        /\ op' = "rotate"
        /\ args' = <<a, Num(r)>>
        /\ res' = rotate(a, Num(r))
        /\ prev' = Undefined

\* after rotate(a, n): rotate(result, -n)
CallRotateBack ==
    /\ op = "rotate"
    /\ UNCHANGED <<heap, refs>>
    /\ op' = "rotateBack"
    /\ args' = args
    /\ prev' = res
    /\ res' = rotate(res, JsNeg(args[2]))

CallDuplicate ==
    /\ op = "init"
    /\ UNCHANGED <<heap, refs>>
    /\ \E arr \in Lists, n \in {Num(k) : k \in 1 .. MaxCount} \cup {Undefined} :
        /\ op' = "duplicate"
        /\ args' = <<arr, n>>
        /\ res' = duplicate(arr, n)
        /\ prev' = Undefined

CallClone ==
    /\ op = "init"
    /\ UNCHANGED <<heap, refs>>
    /\ \E a \in DocLists \cup NestedLists, clones \in OffsetLists :
        /\ op' = "clone"
        /\ args' = <<a, clones>>
        /\ res' = clone(a, clones)
        /\ prev' = Undefined

CallStretch ==
    /\ op = "init"
    /\ UNCHANGED <<heap, refs>>
    /\ \E a \in Lists, len \in 0 .. MaxCount, mode \in InterpolationModes :
        /\ op' = "stretch"
        /\ args' = <<a, Num(len), mode>>
        /\ res' = stretch(a, Num(len), mode)
        /\ prev' = Undefined

CallSplit ==
    /\ op = "init"
    /\ UNCHANGED <<heap, refs>>
    /\ \E a \in ChunkLists, s \in SizeLists :
        op' = "split" /\ args' = <<a, s>> /\ res' = split(a, s) /\ prev' = Undefined

CallPalindrome ==
    /\ op = "init"
    /\ UNCHANGED <<heap, refs>>
    /\ \E arr \in ChunkLists \cup {Undefined}, noDouble \in BOOLEAN :
        /\ op' = "palindrome"
        /\ args' = <<arr, noDouble>>
        /\ res' = palindrome(arr, noDouble)
        /\ prev' = Undefined

CallNormalize ==
    /\ op = "init"
    /\ UNCHANGED <<heap, refs>>
    /\ \E a \in NormalizeLists :
        op' = "normalize" /\ args' = <<a>> /\ res' = normalize(a) /\ prev' = Undefined

CallSignedNormalize ==
    /\ op = "init"
    /\ UNCHANGED <<heap, refs>>
    /\ \E a \in NormalizeLists :
        /\ op' = "signedNormalize"
        /\ args' = <<a>>
        /\ res' = signedNormalize(a)
        /\ prev' = Undefined

CallSlice ==
    /\ op = "init"
    /\ UNCHANGED <<heap, refs>>
    /\ \E a \in ChunkLists, s \in SizeLists, r \in BOOLEAN :
        op' = "slice" /\ args' = <<a, s, r>> /\ res' = slice(a, s, r) /\ prev' = Undefined

CallLookup ==
    /\ op = "init"
    /\ UNCHANGED <<heap, refs>>
    /\ \E idx \in IndexLists, arr \in ValueLists \cup {Ints(<<>>), Undefined} :
        op' = "lookup" /\ args' = <<idx, arr>> /\ res' = lookup(idx, arr) /\ prev' = Undefined

CallLace ==
    /\ op = "init"
    /\ UNCHANGED <<heap, refs>>
    /\ \E arrs \in UNION {[1 .. k -> LaceLists] : k \in 1 .. MaxArgs} :
        op' = "lace" /\ args' = arrs /\ res' = lace(Arr(arrs)) /\ prev' = Undefined

CallSpray ==
    /\ op = "init"
    /\ UNCHANGED <<heap, refs>>
    /\ \E values \in SprayValues, beats \in BeatLists :
        /\ op' = "spray"
        /\ args' = <<values, beats>>
        /\ res' = spray(values, beats)
        /\ prev' = Undefined

CallRepeat ==
    /\ op = "init"
    /\ UNCHANGED <<heap, refs>>
    /\ \E arr \in ValueLists \cup {Ints(<<>>), Undefined}, rep \in CountLists :
        /\ op' = "repeat"
        /\ args' = <<arr, rep>>
        /\ res' = repeat(arr, rep)
        /\ prev' = Undefined

CallUnique ==
    /\ op = "init"
    /\ UNCHANGED <<heap, refs>>
    /\ \E a \in Lists \cup {Ints(<<>>), Num(5), Undefined} :
        op' = "unique" /\ args' = <<a>> /\ res' = unique(a) /\ prev' = Undefined

CallPadding ==
    /\ op = "init"
    /\ UNCHANGED <<heap, refs>>
    /\ \E a \in DocLists \cup {Ints(<<>>), Num(3), Undefined},
          len \in {Num(k) : k \in 0 .. MaxCount} \cup {Undefined},
          pad \in {Num(-1), Undefined},
          shift \in {Num(k) : k \in -1 .. 1} \cup {Undefined} :
        /\ op' = "padding"
        /\ args' = <<a, len, pad, shift>>
        /\ res' = padding(a, len, pad, shift)
        /\ prev' = Undefined

CallSpreadInclusiveFloat ==
    /\ op = "init"
    /\ UNCHANGED <<heap, refs>>
    /\ \E len \in {Num(k) : k \in 1 .. MaxCount} \cup {Undefined},
          lo \in SmallInts \cup {Rat(1, 2), Undefined},
          hi \in SmallInts \cup {Rat(-5, 2), Undefined} :
        /\ op' = "spreadInclusiveFloat"
        /\ args' = <<len, lo, hi>>
        /\ res' = spreadInclusiveFloat(len, lo, hi)
        /\ prev' = Undefined

CallSpreadInclusiveFloatExp ==
    /\ op = "init"
    /\ UNCHANGED <<heap, refs>>
    /\ \E len \in {Num(k) : k \in 1 .. MaxCount} \cup {Undefined},
          lo \in SmallInts \cup {Undefined},
          hi \in SmallInts \cup {Undefined},
          exp \in {Num(1), Num(2), Undefined} :
        /\ op' = "spreadInclusiveFloatExp"
        /\ args' = <<len, lo, hi, exp>>
        /\ res' = spreadInclusiveFloatExp(len, lo, hi, exp)
        /\ prev' = Undefined

CallInvert ==
    /\ op = "init"
    /\ UNCHANGED <<heap, refs>>
    /\ \E a \in Lists,
          lo \in SmallInts \cup {Rat(1, 2), Undefined},
          hi \in {Num(0), Num(MaxInt), Undefined} :
        /\ op' = "invert"
        /\ args' = <<a, lo, hi>>
        /\ res' = invert(a, lo, hi)
        /\ prev' = Undefined

\* after invert(a, lo, hi): invert(result, lo, hi)
CallInvertAgain ==
    /\ op = "invert"
    /\ UNCHANGED <<heap, refs>>
    /\ op' = "invertAgain"
    /\ args' = args
    /\ prev' = res
    /\ res' = invert(res, args[2], args[3])

CallReverseOnHeap ==
    /\ op = "init"
    /\ \E a \in HeapLists :
        \E before \in {Alloc(<<>>, a)} :
        \E after \in {reverseOnHeap(before.heap, before.ret)} :
            /\ op' = "onHeap"
            /\ args' = <<a>>
            /\ heap' = after.heap
            /\ refs' = [fn |-> "reverse", args |-> <<before.ret>>, ret |-> after.ret]
            /\ res' = Deref(after.heap, after.ret)
            /\ prev' = Undefined

CallPalindromeOnHeap ==
    /\ op = "init"
    /\ \E a \in HeapLists, noDouble \in BOOLEAN :
        \E before \in {Alloc(<<>>, a)} :
        \E after \in {palindromeOnHeap(before.heap, before.ret, noDouble)} :
            /\ op' = "onHeap"
            /\ args' = <<a, noDouble>>
            /\ heap' = after.heap
            /\ refs' = [fn |-> "palindrome", args |-> <<before.ret>>, ret |-> after.ret]
            /\ res' = Deref(after.heap, after.ret)
            /\ prev' = Undefined

CallRotateOnHeap ==
    /\ op = "init"
    /\ \E a \in HeapLists, r \in -MaxK .. MaxK :
        \E before \in {Alloc(<<>>, a)} :
        \E after \in {rotateOnHeap(before.heap, before.ret, Num(r))} :
            /\ op' = "onHeap"
            /\ args' = <<a, Num(r)>>
            /\ heap' = after.heap
            /\ refs' = [fn |-> "rotate", args |-> <<before.ret>>, ret |-> after.ret]
            /\ res' = Deref(after.heap, after.ret)
            /\ prev' = Undefined

CallSprayOnHeap ==
    /\ op = "init"
    /\ \E values \in HeapLists, beats \in HeapLists :
        \E first \in {Alloc(<<>>, values)} :
        \E before \in {Alloc(first.heap, beats)} :
        \E after \in {sprayOnHeap(before.heap, first.ret, before.ret)} :
            /\ op' = "onHeap"
            /\ args' = <<values, beats>>
            /\ heap' = after.heap
            /\ refs' = [fn |-> "spray", args |-> <<first.ret, before.ret>>, ret |-> after.ret]
            /\ res' = Deref(after.heap, after.ret)
            /\ prev' = Undefined

CallFilterTypeOnHeap ==
    /\ op = "init"
    /\ \E a \in MixedLists, t \in TypeLists :
        \E before \in {Alloc(<<>>, a)} :
        \E after \in {filterTypeOnHeap(before.heap, before.ret, t)} :
            /\ op' = "onHeap"
            /\ args' = <<a, t>>
            /\ heap' = after.heap
            /\ refs' = [fn |-> "filterType", args |-> <<before.ret>>, ret |-> after.ret]
            /\ res' = Deref(after.heap, after.ret)
            /\ prev' = Undefined

CallLaceOnHeap ==
    /\ op = "init"
    /\ \E arrs \in UNION {[1 .. k -> HeapLists] : k \in 1 .. MaxK} :
        \E before \in {AllocAll(<<>>, arrs)} :
        \E after \in {laceOnHeap(before.heap, before.slots)} :
            /\ op' = "onHeap"
            /\ args' = arrs
            /\ heap' = after.heap
            /\ refs' = [fn |-> "lace", args |-> before.slots, ret |-> after.ret]
            /\ res' = Deref(after.heap, after.ret)
            /\ prev' = Undefined

CallStretchOnHeap ==
    /\ op = "init"
    /\ \E a \in HeapLists, len \in 0 .. MaxK, mode \in InterpolationModes :
        \E before \in {Alloc(<<>>, a)} :
        \E after \in {stretchOnHeap(before.heap, before.ret, Num(len), mode)} :
            /\ op' = "onHeap"
            /\ args' = <<a, Num(len), mode>>
            /\ heap' = after.heap
            /\ refs' = [fn |-> "stretch", args |-> <<before.ret>>, ret |-> after.ret]
            /\ res' = Deref(after.heap, after.ret)
            /\ prev' = Undefined

CallAddOnHeap ==
    /\ op = "init"
    /\ \E a \in HeapLists, b \in HeapLists :
        \E first \in {Alloc(<<>>, a)} :
        \E before \in {Alloc(first.heap, b)} :
        \E after \in {addOnHeap(before.heap, first.ret, before.ret)} :
            /\ op' = "onHeap"
            /\ args' = <<a, b>>
            /\ heap' = after.heap
            /\ refs' = [fn |-> "add", args |-> <<first.ret, before.ret>>, ret |-> after.ret]
            /\ res' = Deref(after.heap, after.ret)
            /\ prev' = Undefined

RECURSIVE Reach(_, _)
\* the Arrays of the heap h that the slot v refers to, at every depth
Reach(h, v) ==
    IF ~IsRef(v) THEN {}
    ELSE {v.id} \cup UNION {Reach(h, h[v.id][i]) : i \in 1 .. Len(h[v.id])}

\* the caller, after a call, writes into an Array of the result or pushes to it
MutateResult ==
    /\ op = "onHeap"
    /\ \E id \in Reach(heap, refs.ret) : \E i \in 1 .. Len(heap[id]) + 1 :
        /\ heap' = [heap EXCEPT ![id] =
                        IF i > Len(@) THEN Append(@, Marker) ELSE [@ EXCEPT ![i] = Marker]]
        /\ op' = "mutated"
        /\ res' = Deref(heap', refs.ret)
    /\ prev' = res
    /\ UNCHANGED <<args, refs>>

Next ==
    \/ CallAdd
    \/ CallSubtract
    \/ CallMultiply
    \/ CallDivide
    \/ CallMod
    \/ CallPow
    \/ CallWrap
    \/ CallWrapShifted
    \/ CallConstrain
    \/ CallConstrainAgain
    \/ CallFold
    \/ CallRotate
    \/ CallRotateBack
    \/ CallDuplicate
    \/ CallClone
    \/ CallStretch
    \/ CallSplit
    \/ CallPalindrome
    \/ CallNormalize
    \/ CallSignedNormalize
    \/ CallSlice
    \/ CallLookup
    \/ CallLace
    \/ CallSpray
    \/ CallRepeat
    \/ CallUnique
    \/ CallPadding
    \/ CallSpreadInclusiveFloat
    \/ CallSpreadInclusiveFloatExp
    \/ CallInvert
    \/ CallInvertAgain
    \/ CallReverseOnHeap
    \/ CallPalindromeOnHeap
    \/ CallRotateOnHeap
    \/ CallSprayOnHeap
    \/ CallFilterTypeOnHeap
    \/ CallLaceOnHeap
    \/ CallStretchOnHeap
    \/ CallAddOnHeap
    \/ MutateResult

Spec == Init /\ [][Next]_vars

(***************************************************************************)
(* Properties.                                                             *)
(***************************************************************************)
Max(x, y) == IF x > y THEN x ELSE y
Min(x, y) == IF x < y THEN x ELSE y

\* a non-empty Array none of whose elements is an Array
IsFlatList(v) ==
    IsArray(v) /\ Len(v.e) >= 1 /\ \A i \in 1 .. Len(v.e) : ~IsArray(v.e[i])

RECURSIVE AllLeavesNumbers(_)
\* every leaf of v is a number
AllLeavesNumbers(v) ==
    IF IsArray(v) THEN \A i \in 1 .. Len(v.e) : AllLeavesNumbers(v.e[i])
    ELSE IsNumber(v)

ArithmeticNames == {"add", "subtract", "multiply", "divide", "pow"}

\* C1: for two non-empty flat lists a and b, add, subtract, multiply, divide
\* and pow return a list of length max(len(a), len(b)) whose element i is
\* op(a[i mod len(a)], b[i mod len(b)]); the documented examples hold.
C1_FlatBroadcast ==
    /\ (op \in ArithmeticNames /\ IsFlatList(args[1]) /\ IsFlatList(args[2])) =>
        LET a == args[1].e
            b == args[2].e
            n == Max(Len(a), Len(b))
        IN  /\ IsArray(res)
            /\ Len(res.e) = n
            /\ \A i \in 0 .. n - 1 :
                res.e[i + 1] =
                    Apply([name |-> op], a[(i % Len(a)) + 1], b[(i % Len(b)) + 1])
    /\ (op \in ArithmeticNames /\ args = <<Ints(<<1, 2, 3, 4>>), Ints(<<1, 2, 3>>)>>) =>
        /\ op = "add" => res = Ints(<<2, 4, 6, 5>>)
        /\ op = "subtract" => res = Ints(<<0, 0, 0, 3>>)
        /\ op = "multiply" => res = Ints(<<1, 4, 9, 4>>)
        /\ op = "divide" => res = Ints(<<1, 1, 1, 4>>)
    /\ (op = "pow" /\ args = <<Ints(<<1, 2, 3, 4>>), Ints(<<2, 3, 4>>)>>) =>
        res = Ints(<<1, 8, 81, 16>>)

\* C1 witness: add([1,2,3,4],[1,2,3]) returned [2,4,6,5]
C1_Witness ==
    /\ op = "add"
    /\ args = <<Ints(<<1, 2, 3, 4>>), Ints(<<1, 2, 3>>)>>
    /\ res = Ints(<<2, 4, 6, 5>>)

RECURSIVE Broadcast(_, _, _)
\* the broadcasting rule applied at every level: a scalar is paired with every
\* element of a list, two lists are paired index by index, the shorter cycling
Broadcast(a, b, operation) ==
    IF ~IsArray(a) /\ ~IsArray(b) THEN Apply(operation, a, b)
    ELSE IF ~IsArray(b) THEN Arr([i \in 1 .. Len(a.e) |-> Broadcast(a.e[i], b, operation)])
    ELSE IF ~IsArray(a) THEN Arr([i \in 1 .. Len(b.e) |-> Broadcast(a, b.e[i], operation)])
    ELSE Arr([i \in 1 .. Max(Len(a.e), Len(b.e)) |->
                Broadcast(a.e[((i - 1) % Len(a.e)) + 1],
                          b.e[((i - 1) % Len(b.e)) + 1], operation)])

\* C2: when both operands are lists and a paired element is itself a list, the
\* pairing is computed recursively by the same rule: the result is nested like
\* the operands and every leaf is a number; add([1,[2,3]],[10,[20,30,40]]) is
\* [11,[22,33,42]].
C2_NestedBroadcast ==
    (op \in ArithmeticNames /\ IsArray(args[1]) /\ IsArray(args[2])) =>
        /\ res = Broadcast(args[1], args[2], [name |-> op])
        /\ AllLeavesNumbers(res)
        /\ (op = "add" /\ args = <<Arr(<<Num(1), Ints(<<2, 3>>)>>),
                                   Arr(<<Num(10), Ints(<<20, 30, 40>>)>>)>>) =>
                res = Arr(<<Num(11), Ints(<<22, 33, 42>>)>>)

\* the linear interpolation of the flat list a at the virtual position
\* i / (len - 1) * (L - 1)
LinearAt(a, i, len) ==
    LET L == Len(a.e)
        pos == Rat(i * (L - 1), len - 1)
        k == JsFloor(pos).n
        f == NumSub(pos, Num(k))
    IN  NumAdd(NumMul(a.e[k + 1], NumSub(Num(1), f)),
               NumMul(a.e[Min(k + 1, L - 1) + 1], f))

\* C3: for a list of length L >= 1 and len >= 2, stretch(seq, len, 'linear')
\* returns exactly len elements, element i the linear interpolation at position
\* i/(len-1)*(L-1), so the first is seq[0] and the last seq[L-1];
\* stretch([0,10], 5, 'linear') is [0, 2.5, 5, 7.5, 10].
C3_StretchLinear ==
    (op = "stretch" /\ args[3] = "linear" /\ args[2].n >= 2 /\ IsFlatList(args[1])) =>
        /\ IsArray(res)
        /\ Len(res.e) = args[2].n
        /\ \A i \in 0 .. args[2].n - 1 : res.e[i + 1] = LinearAt(args[1], i, args[2].n)
        /\ res.e[1] = args[1].e[1]
        /\ res.e[Len(res.e)] = args[1].e[Len(args[1].e)]
        /\ (args[1] = Ints(<<0, 10>>) /\ args[2] = Num(5)) =>
                res = Arr(<<Num(0), Rat(5, 2), Num(5), Rat(15, 2), Num(10)>>)

\* C4: duplicate(seq, n) for n >= 1 (default 2) returns a list of length
\* n * len(seq) whose element i is seq[i mod len(seq)]; duplicate([0,7,12], 3)
\* is [0,7,12,0,7,12,0,7,12].
C4_DuplicateConcat ==
    op = "duplicate" =>
        LET n == Default(args[2], Num(2)).n
            L == Len(args[1].e)
        IN  /\ IsArray(res)
            /\ Len(res.e) = n * L
            /\ \A i \in 0 .. n * L - 1 : res.e[i + 1] = args[1].e[(i % L) + 1]

RECURSIVE OffsetDeep(_, _)
\* v with the number c added to every leaf, the nesting kept
OffsetDeep(v, c) ==
    IF IsArray(v) THEN Arr([i \in 1 .. Len(v.e) |-> OffsetDeep(v.e[i], c)])
    ELSE NumAdd(v, c)

\* C5: clone(seq, c1, ..., cn) with numeric offsets returns, for each ck in
\* order, one copy of seq with ck added to every leaf, the copies concatenated:
\* n * len(seq) elements; clone([0,5,7], 0, 12, -12) is
\* [0,5,7,12,17,19,-12,-7,-5].
C5_CloneOffsets ==
    op = "clone" =>
        LET a == args[1].e
            clones == args[2].e
            L == Len(a)
        IN  /\ IsArray(res)
            /\ Len(res.e) = Len(clones) * L
            /\ \A k \in 1 .. Len(clones) : \A j \in 1 .. L :
                    res.e[(k - 1) * L + j] = OffsetDeep(a[j], clones[k])

RECURSIVE RangeMapDeep(_, _, _, _)
\* v with every leaf replaced by wrap, constrain or fold of that leaf
RangeMapDeep(name, v, lo, hi) ==
    IF IsArray(v) THEN Arr([i \in 1 .. Len(v.e) |-> RangeMapDeep(name, v.e[i], lo, hi)])
    ELSE CASE name = "wrap" -> wrap(v, lo, hi)
           [] name = "constrain" -> constrain(v, lo, hi)
           [] name = "fold" -> fold(v, lo, hi)

NestedExample ==
    Arr(<<Num(0), Arr(<<Num(1), Ints(<<2, 3>>)>>), Ints(<<4, 5>>), Num(6)>>)

\* C6: wrap, constrain and fold of a list with nested lists recurse into them:
\* the result has the nesting of the input and every numeric leaf is replaced
\* by its range-mapped value; wrap([0,[1,[2,3]],[4,5],6], 2, 5) is
\* [3,[4,[2,3]],[4,2],3], constrain of it is [2,[2,[2,3]],[4,5],5].
\* (Stated for lo # hi, so that no failure rests on an empty range.)
C6_RangeMapNested ==
    (op \in {"wrap", "constrain", "fold"} /\ IsArray(args[1]) /\ args[2] # args[3]) =>
        /\ res = RangeMapDeep(op, args[1], args[2], args[3])
        /\ (op = "wrap" /\ args = <<NestedExample, Num(2), Num(5)>>) =>
                res = Arr(<<Num(3), Arr(<<Num(4), Ints(<<2, 3>>)>>), Ints(<<4, 2>>), Num(3)>>)
        /\ (op = "constrain" /\ args = <<NestedExample, Num(2), Num(5)>>) =>
                res = Arr(<<Num(2), Arr(<<Num(2), Ints(<<2, 3>>)>>), Ints(<<4, 5>>), Num(5)>>)

\* C7: for every non-empty list seq and every integer n, positive, zero or
\* negative, of any magnitude, rotate(rotate(seq, n), -n) equals seq element
\* for element.
C7_RotateRoundTrip == op = "rotateBack" => res = args[1]

\* C7 witness: a three-element list rotated by -5, which moved its elements,
\* and rotated back by 5
C7_Witness ==
    /\ op = "rotateBack"
    /\ args[2] = Num(-5)
    /\ Len(args[1].e) = 3
    /\ prev # args[1]
    /\ res = args[1]

\* C8: for a list seq of length L >= 1 and an integer n, rotate(seq, n) has
\* length L and its element i is seq[(i - n) mod L], a shift to the right for
\* positive n; rotate(seq, k * L) equals seq.
C8_RotateIndex ==
    (op = "rotate" /\ Len(args[1].e) >= 1) =>
        LET a == args[1].e
            n == args[2].n
            L == Len(a)
        IN  /\ IsArray(res)
            /\ Len(res.e) = L
            /\ \A i \in 0 .. L - 1 : res.e[i + 1] = a[((i - n) % L) + 1]
            /\ (n % L = 0) => res = args[1]

\* C8 witness: [1,2,3,4] rotated by 1 is [4,1,2,3]
C8_Witness ==
    /\ op = "rotate"
    /\ args = <<Ints(<<1, 2, 3, 4>>), Num(1)>>
    /\ res = Ints(<<4, 1, 2, 3>>)

\* v is a finite number with lo <= v < hi
InHalfOpen(v, lo, hi) == v.t = "num" /\ ~NumLess(v, lo) /\ NumLess(v, hi)
\* v is a number with lo <= v <= hi
InClosed(v, lo, hi) == IsNumber(v) /\ v.t # "nan" /\ ~NumLess(v, lo) /\ ~NumLess(hi, v)

\* C9 as stated: for all integers x, lo, hi, wrap(x, lo, hi) lies in
\* [min(lo,hi), max(lo,hi)) and wrap(x + k*(hi-lo), lo, hi) = wrap(x, lo, hi).
C9_WrapAnyRange ==
    /\ (op \in {"wrap", "wrapShifted"} /\ ~IsArray(args[1])) =>
        InHalfOpen(res, NumMin(args[2], args[3]), NumMax(args[2], args[3]))
    /\ op = "wrapShifted" => res = prev

\* C9 amended: for all integers x, lo, hi with lo # hi, wrap(x, lo, hi) lies in
\* [min(lo,hi), max(lo,hi)) and wrap(x + k*(hi-lo), lo, hi) = wrap(x, lo, hi);
\* for lo = hi the range is empty and the result is NaN.
C9_WrapNonEmptyRange ==
    /\ (op \in {"wrap", "wrapShifted"} /\ ~IsArray(args[1]) /\ args[2] # args[3]) =>
        InHalfOpen(res, NumMin(args[2], args[3]), NumMax(args[2], args[3]))
    /\ (op = "wrapShifted" /\ args[2] # args[3]) => res = prev
    /\ (op \in {"wrap", "wrapShifted"} /\ ~IsArray(args[1]) /\ args[2] = args[3]) =>
        res = NaN

\* C9 witness: wrap(-3, 2, -1) is 0 (the bounds given in reverse, x below the
\* range), and wrap(-3 + 2 * (-1 - 2), 2, -1) is 0 again
C9_Witness ==
    /\ op = "wrapShifted"
    /\ args = <<Num(-3), Num(2), Num(-1), Num(2)>>
    /\ prev = Num(0)
    /\ res = Num(0)

\* C10: for all numbers x, lo, hi, constrain(x, lo, hi) lies in
\* [min(lo,hi), max(lo,hi)], leaves x unchanged when x is already in that
\* range, and is idempotent; bound, clip and clamp give the same result.
C10_Constrain ==
    /\ (op = "constrain" /\ ~IsArray(args[1])) =>
        LET lo == NumMin(args[2], args[3])
            hi == NumMax(args[2], args[3])
        IN  /\ InClosed(res, lo, hi)
            /\ InClosed(args[1], lo, hi) => res = args[1]
            /\ NumLess(args[1], lo) => res = lo
            /\ NumLess(hi, args[1]) => res = hi
            /\ bound(args[1], args[2], args[3]) = res
            /\ clip(args[1], args[2], args[3]) = res
            /\ clamp(args[1], args[2], args[3]) = res
    /\ op = "constrainAgain" => res = prev

\* C10 witness: constrain(3, 2, -1) is 2, and clamp(2, 2, -1) is 2 again
C10_Witness ==
    /\ op = "constrainAgain"
    /\ args = <<Num(3), Num(2), Num(-1), "clamp">>
    /\ prev = Num(2)
    /\ res = Num(2)

RECURSIVE ConcatChunks(_)
\* the elements of the chunks cs, in order
ConcatChunks(cs) == IF Len(cs) = 0 THEN <<>> ELSE Head(cs).e \o ConcatChunks(Tail(cs))

\* a non-empty list of positive integers
IsPositiveSizes(s) ==
    IsArray(s) /\ Len(s.e) > 0 /\ \A i \in 1 .. Len(s.e) : IsInt(s.e[i]) /\ s.e[i].n > 0

\* the chunks cs follow the sizes s cyclically; only the last may be shorter
CyclicChunkLengths(cs, s) ==
    \A k \in 1 .. Len(cs) :
        LET size == s.e[((k - 1) % Len(s.e)) + 1].n
        IN  /\ IsArray(cs[k])
            /\ Len(cs[k].e) > 0
            /\ IF k < Len(cs) THEN Len(cs[k].e) = size ELSE Len(cs[k].e) <= size

\* C11: for every non-empty seq and every list of positive integer sizes,
\* the chunks of split(seq, sizes) concatenate to seq, chunk k has length
\* sizes[k mod len(sizes)] except that the last may be shorter, no chunk is
\* empty, and split([1,2,3,4,5,6,7],[2,3]) = [[1,2],[3,4,5],[6,7]].
C11_SplitChunks ==
    (op = "split" /\ IsArray(args[1]) /\ IsPositiveSizes(args[2])) =>
        /\ Len(args[1].e) > 0 =>
            /\ IsArray(res)
            /\ ConcatChunks(res.e) = args[1].e
            /\ CyclicChunkLengths(res.e, args[2])
        /\ args = <<Ints(<<1, 2, 3, 4, 5, 6, 7>>), Ints(<<2, 3>>)>> =>
            res = Arr(<<Ints(<<1, 2>>), Ints(<<3, 4, 5>>), Ints(<<6, 7>>)>>)

\* C11 witness: split([-1,0,2],[2,1]) cuts [-1,0] and then [2] with the
\* second size
C11_Witness ==
    /\ op = "split"
    /\ args = <<Ints(<<-1, 0, 2>>), Ints(<<2, 1>>)>>
    /\ res = Arr(<<Ints(<<-1, 0>>), Ints(<<2>>)>>)

\* C12: split(seq, sizes) returns a list of chunks for every seq and every
\* sizes list, zero sizes included, and a non-empty seq gives no empty chunk.
C12_SplitTerminates ==
    op = "split" =>
        /\ IsArray(res)
        /\ (IsArray(args[1]) /\ Len(args[1].e) > 0) =>
            \A k \in 1 .. Len(res.e) : IsArray(res.e[k]) /\ Len(res.e[k].e) > 0

\* C13: for a list seq of length L, palindrome(seq) is seq followed by
\* reverse(seq), has length 2L and reads the same in both directions;
\* palindrome(seq, true) is seq followed by reverse(seq) without its first and
\* last element; palindrome([1,2,3]) = [1,2,3,3,2,1] and
\* palindrome([1,2,3], true) = [1,2,3,2].
C13_Palindrome ==
    (op = "palindrome" /\ IsArray(args[1])) =>
        LET seq == args[1].e
            L == Len(seq)
            rev == reverse(args[1]).e
        IN  /\ IsArray(res)
            /\ ~args[2] =>
                /\ res.e = seq \o rev
                /\ Len(res.e) = 2 * L
                /\ \A i \in 1 .. 2 * L : res.e[i] = res.e[2 * L + 1 - i]
            /\ args[2] =>
                /\ res.e = seq \o SubSeq(rev, 2, L - 1)
                /\ L >= 2 => Len(res.e) = 2 * L - 2
                /\ \A i \in 1 .. Len(res.e) - L : res.e[L + i] = seq[L - i]
            /\ args[1] = Ints(<<1, 2, 3>>) =>
                res = IF args[2] THEN Ints(<<1, 2, 3, 2>>) ELSE Ints(<<1, 2, 3, 3, 2, 1>>)

\* C13 witness: palindrome([0,7,12], true) is [0,7,12,7]
C13_Witness ==
    /\ op = "palindrome"
    /\ args = <<Ints(<<0, 7, 12>>), TRUE>>
    /\ res = Ints(<<0, 7, 12, 7>>)

RECURSIVE LeafSeq(_)
\* the leaves of v, left to right
LeafSeq(v) ==
    IF ~IsArray(v) THEN <<v>>
    ELSE IF Len(v.e) = 0 THEN <<>>
    ELSE LeafSeq(Head(v.e)) \o LeafSeq(Arr(Tail(v.e)))

\* the leaves of v as a set
LeafSet(v) == {LeafSeq(v)[i] : i \in 1 .. Len(LeafSeq(v))}

\* the least and the greatest of a non-empty set of finite numbers
LeastOf(S) == CHOOSE x \in S : \A y \in S : ~NumLess(y, x)
GreatestOf(S) == CHOOSE x \in S : \A y \in S : ~NumLess(x, y)

RECURSIVE UnitScaleDeep(_, _, _)
\* v with every leaf x replaced by (x - lo) / (hi - lo)
UnitScaleDeep(v, lo, hi) ==
    IF IsArray(v) THEN Arr([i \in 1 .. Len(v.e) |-> UnitScaleDeep(v.e[i], lo, hi)])
    ELSE NumDiv(NumSub(v, lo), NumSub(hi, lo))

\* C16: for a list seq of finite numbers with max > min, normalize(seq) has
\* the nesting shape of seq and the leaf (x - min)/(max - min) for every leaf
\* x, so every leaf is in [0,1], a minimal leaf gives 0, a maximal leaf gives
\* 1 and a greater leaf never gives a smaller result;
\* normalize([0,1,2,3,4]) = [0,0.25,0.5,0.75,1].
C16_Normalize ==
    (op = "normalize" /\ LeafSet(args[1]) # {}
                      /\ \A x \in LeafSet(args[1]) : x.t = "num") =>
        LET lo == LeastOf(LeafSet(args[1]))
            hi == GreatestOf(LeafSet(args[1]))
            in == LeafSeq(args[1])
            out == LeafSeq(res)
        IN  NumLess(lo, hi) =>
                /\ res = UnitScaleDeep(args[1], lo, hi)
                /\ Len(out) = Len(in)
                /\ \A i \in 1 .. Len(out) :
                    /\ InClosed(out[i], Num(0), Num(1))
                    /\ in[i] = lo => out[i] = Num(0)
                    /\ in[i] = hi => out[i] = Num(1)
                    /\ \A j \in 1 .. Len(out) :
                        NumLess(in[i], in[j]) => NumLess(out[i], out[j])
                /\ args[1] = Ints(<<0, 1, 2, 3, 4>>) =>
                    res = Arr(<<Num(0), Rat(1, 4), Rat(1, 2), Rat(3, 4), Num(1)>>)

\* C16 witness: the nested example of the documentation,
\* normalize([5,[12,[4,17]],3,1]) = [0.25,[0.6875,[0.1875,1]],0.125,0]
C16_Witness ==
    /\ op = "normalize"
    /\ args = <<Arr(<<Num(5), Arr(<<Num(12), Ints(<<4, 17>>)>>), Num(3), Num(1)>>)>>
    /\ res = Arr(<<Rat(1, 4), Arr(<<Rat(11, 16), Arr(<<Rat(3, 16), Num(1)>>)>>),
                   Rat(1, 8), Num(0)>>)

\* C17: with mode 'none' every element of stretch(seq, len, 'none') is an
\* element of seq, and for a flat list of numbers with distinct neighbours
\* and len > L the result differs from stretch(seq, len, 'linear').
C17_StretchModes ==
    (op = "stretch" /\ args[3] = "none" /\ args[2].n >= 2
                    /\ IsFlatList(args[1]) /\ AllLeavesNumbers(args[1])) =>
        LET seq == args[1].e
            L == Len(seq)
        IN  /\ IsArray(res)
            /\ \A i \in 1 .. Len(res.e) : \E j \in 1 .. L : res.e[i] = seq[j]
            /\ (args[2].n > L /\ L >= 2 /\ \A j \in 1 .. L - 1 : seq[j] # seq[j + 1]) =>
                    res # stretch(args[1], args[2], "linear")

\* C18 as stated: slice(seq, sizes, true) returns chunks that concatenate to
\* seq, chunk k of length sizes[k mod len(sizes)] with the sizes reused
\* cyclically, only the last chunk possibly shorter, and no chunk empty.
C18_SliceCyclic ==
    (op = "slice" /\ args[3] /\ IsArray(args[1]) /\ Len(args[1].e) > 0
                  /\ IsPositiveSizes(args[2])) =>
        /\ IsArray(res)
        /\ ConcatChunks(res.e) = args[1].e
        /\ CyclicChunkLengths(res.e, args[2])

\* the positive entries of the sizes s, in order
PositiveSizes(s) == SelectSeq(s, LAMBDA v : IsInt(v) /\ v.n > 0)

RECURSIVE SumSizes(_, _)
\* the sum of the first k sizes of s
SumSizes(s, k) == IF k = 0 THEN 0 ELSE SumSizes(s, k - 1) + s[k].n

\* C18 amended: slice(seq, sizes, true) uses the sizes list once, in order:
\* every positive size gives one chunk of that length, cut short (possibly to
\* an empty chunk) where seq ends, other sizes are skipped, and the elements
\* left after the last size, if any, are one final chunk; for a non-empty
\* seq the chunks concatenate to seq.
C18_SliceOnce ==
    (op = "slice" /\ args[3] /\ IsArray(args[1]) /\ IsArray(args[2])) =>
        LET seq == args[1].e
            L == Len(seq)
            sizes == PositiveSizes(args[2].e)
            n == Len(sizes)
        IN  /\ IsArray(res)
            /\ ConcatChunks(res.e) = seq
            /\ Len(res.e) = IF SumSizes(sizes, n) < L THEN n + 1 ELSE n
            /\ \A k \in 1 .. n :
                res.e[k] = Arr(SubSeq(seq, SumSizes(sizes, k - 1) + 1,
                                      Min(SumSizes(sizes, k), L)))
            /\ SumSizes(sizes, n) < L =>
                res.e[n + 1] = Arr(SubSeq(seq, SumSizes(sizes, n) + 1, L))

\* C18 witness: slice([1,2,3,4,5,6,7], [2]) is [[1,2],[3,4,5,6,7]]: the size 2
\* is used once and the rest is one chunk
C18_Witness ==
    /\ op = "slice"
    /\ args = <<Ints(<<1, 2, 3, 4, 5, 6, 7>>), Ints(<<2>>), TRUE>>
    /\ res = Arr(<<Ints(<<1, 2>>), Ints(<<3, 4, 5, 6, 7>>)>>)

RECURSIVE LookupDeep(_, _)
\* the list idx with every integer i replaced by values[i mod len(values)],
\* every other leaf left out and every nested list treated the same way
LookupDeep(idx, values) ==
    IF Len(idx.e) = 0 THEN Arr(<<>>)
    ELSE LET v == Head(idx.e)
             rest == LookupDeep(Arr(Tail(idx.e)), values)
         IN  IF IsArray(v) THEN Arr(<<LookupDeep(v, values)>> \o rest.e)
             ELSE IF IsInt(v) THEN Arr(<<values.e[(v.n % Len(values.e)) + 1]>> \o rest.e)
             ELSE rest

\* C19: for a list of indices whose leaves are integers or no numbers and a
\* non-empty list values, lookup(indices, values) has the nesting shape of
\* indices, with values[((i mod len) + len) mod len] for every integer i,
\* negative or beyond the end included, no element for an index that is no
\* number, and no undefined element.
C19_Lookup ==
    (op = "lookup" /\ IsArray(args[2]) /\ Len(args[2].e) > 0
                   /\ \A x \in LeafSet(args[1]) : IsInt(x) \/ IsNaN(x)) =>
        /\ res = LookupDeep(args[1], args[2])
        /\ \A x \in LeafSet(res) : x.t # "undef"

\* C19 witness: lookup([7, [-7, 2]], [0, 5, 7]) is [5, [7, 7]]: 7 is beyond the
\* end, -7 is negative
C19_Witness ==
    /\ op = "lookup"
    /\ args = <<Arr(<<Num(7), Ints(<<-7, 2>>)>>), Ints(<<0, 5, 7>>)>>
    /\ res = Arr(<<Num(5), Ints(<<7, 7>>)>>)

RECURSIVE Interleaved(_)
\* the first element of every non-empty sequence of ss, in order, followed by
\* the same of what is left of them
Interleaved(ss) ==
    IF \A k \in 1 .. Len(ss) : Len(ss[k]) = 0 THEN <<>>
    ELSE LET nonEmpty == SelectSeq(ss, LAMBDA s : Len(s) > 0)
         IN  [k \in 1 .. Len(nonEmpty) |-> Head(nonEmpty[k])]
                \o Interleaved([k \in 1 .. Len(nonEmpty) |-> Tail(nonEmpty[k])])

RECURSIVE SumLengths(_, _)
\* the sum of the lengths of the first k lists of ls
SumLengths(ls, k) == IF k = 0 THEN 0 ELSE SumLengths(ls, k - 1) + Len(ls[k].e)

RECURSIVE IsSubsequence(_, _)
\* t has the elements of s in their order, possibly among others
IsSubsequence(s, t) ==
    IF Len(s) = 0 THEN TRUE
    ELSE IF Len(t) = 0 THEN FALSE
    ELSE IF Head(s) = Head(t) THEN IsSubsequence(Tail(s), Tail(t))
    ELSE IsSubsequence(s, Tail(t))

\* C20: for lists s1 .. sk, lace(s1, ..., sk) is a list of as many elements
\* as the inputs have together: for each step i, in argument order, the i-th
\* element of every input that has one, nothing for an exhausted input; the
\* elements of each input keep their order.
C20_Lace ==
    (op = "lace" /\ \A k \in 1 .. Len(args) : IsArray(args[k])) =>
        /\ IsArray(res)
        /\ Len(res.e) = SumLengths(args, Len(args))
        /\ res.e = Interleaved([k \in 1 .. Len(args) |-> args[k].e])
        /\ \A k \in 1 .. Len(args) : IsSubsequence(args[k].e, res.e)

\* C20 witness: lace([0,10], [1,2,3,4], [0,7,12]) is [0,1,0,10,2,7,3,12,4]
C20_Witness ==
    /\ op = "lace"
    /\ args = <<Ints(<<0, 10>>), Ints(<<1, 2, 3, 4>>), Ints(<<0, 7, 12>>)>>
    /\ res = Ints(<<0, 1, 0, 10, 2, 7, 3, 12, 4>>)

\* C14: no operation mutates its arguments: when a call of a transformer
\* or of an arithmetic operation has returned, every list the caller passed
\* has, at every depth, the elements it had before the call, in that order.
C14_ArgumentsUnchanged ==
    op = "onHeap" =>
        \A k \in 1 .. Len(refs.args) : Deref(heap, refs.args[k]) = args[k]

\* C14 witness: spray([[5,7],10], [1,2,3]) has returned [[5,7],10,[5,7]]: the
\* loop has written three times, and both arguments are as they were
C14_Witness ==
    /\ op = "onHeap"
    /\ refs.fn = "spray"
    /\ args = <<Arr(<<Ints(<<5, 7>>), Num(10)>>), Ints(<<1, 2, 3>>)>>
    /\ res = Arr(<<Ints(<<5, 7>>), Num(10), Ints(<<5, 7>>)>>)
    /\ Deref(heap, refs.args[2]) = Ints(<<1, 2, 3>>)

StructuralTransformers ==
    {"reverse", "palindrome", "rotate", "spray", "filterType", "lace", "stretch"}

\* C15: the result of a structural transformer shares no list with its
\* input, neither the outermost nor a nested one, so that a later write into
\* any list of the result leaves every input as it was.
C15_NoSharedNode ==
    /\ (op = "onHeap" /\ refs.fn \in StructuralTransformers) =>
        \A k \in 1 .. Len(refs.args) :
            Reach(heap, refs.ret) \cap Reach(heap, refs.args[k]) = {}
    /\ (op = "mutated" /\ refs.fn \in StructuralTransformers) =>
        \A k \in 1 .. Len(refs.args) : Deref(heap, refs.args[k]) = args[k]

\* a beat that is > 0
IsPositive(v) == NumLess(Num(0), v)

\* the number of beats > 0 among the first k elements of the sequence e
RECURSIVE PositiveBefore(_, _)
PositiveBefore(e, k) ==
    IF k = 0 THEN 0
    ELSE PositiveBefore(e, k - 1) + (IF IsPositive(e[k]) THEN 1 ELSE 0)

\* C21: for a non-empty list values and a list beats of numbers,
\* spray(values, beats) has the length of beats; the k-th beat > 0, counted
\* from 0 in order, is replaced by values[k mod len(values)], and every other
\* beat stays unchanged at its position.
C21_Spray ==
    (op = "spray" /\ IsArray(args[1]) /\ IsArray(args[2]) /\ Len(args[1].e) > 0
                  /\ \A i \in 1 .. Len(args[2].e) : IsNumber(args[2].e[i])) =>
        /\ IsArray(res)
        /\ Len(res.e) = Len(args[2].e)
        /\ \A i \in 1 .. Len(args[2].e) :
            res.e[i] = IF IsPositive(args[2].e[i])
                       THEN args[1].e[(PositiveBefore(args[2].e, i - 1) % Len(args[1].e)) + 1]
                       ELSE args[2].e[i]

\* C21 witness: spray([0, 7, 12], [1, 0, 0, 1, 1, 0, 1, 0.3, 0]) is
\* [0, 0, 0, 7, 12, 0, 0, 7, 0]: the fourth beat > 0 takes the first value again
C21_Witness ==
    /\ op = "spray"
    /\ args[1] = Ints(<<0, 7, 12>>)
    /\ IsArray(args[2]) /\ Len(args[2].e) = 9
    /\ res = Ints(<<0, 0, 0, 7, 12, 0, 0, 7, 0>>)

\* the count c as a number of repetitions: 0 for NaN and for a negative count
Repetitions(c) == IF IsInt(c) /\ c.n > 0 THEN c.n ELSE 0

\* the first k elements of e, the i-th repeated Repetitions(counts[i mod len]) times
RECURSIVE RepeatEach(_, _, _)
RepeatEach(e, counts, k) ==
    IF k = 0 THEN <<>>
    ELSE RepeatEach(e, counts, k - 1)
            \o Times(<<e[k]>>, Repetitions(counts[((k - 1) % Len(counts)) + 1]))

\* the sum of Repetitions(counts[i mod len]) over the first k positions
RECURSIVE SumRepetitions(_, _)
SumRepetitions(counts, k) ==
    IF k = 0 THEN 0
    ELSE SumRepetitions(counts, k - 1) + Repetitions(counts[((k - 1) % Len(counts)) + 1])

\* C22: for a list seq and counts that are integers or NaN (a non-empty list
\* of them, or a single one), repeat(seq, counts) is, in order, each seq[i]
\* repeated counts[i mod len(counts)] times, a negative or NaN count counting
\* as 0; its length is the sum of max(0, counts[i mod len(counts)]).
C22_Repeat ==
    (op = "repeat" /\ IsArray(args[1]) /\ args[2].t # "undef") =>
        LET counts == IF IsArray(args[2]) THEN args[2].e ELSE <<args[2]>>
        IN  (Len(counts) > 0 /\ \A i \in 1 .. Len(counts) : IsInt(counts[i]) \/ IsNaN(counts[i])) =>
                /\ IsArray(res)
                /\ res.e = RepeatEach(args[1].e, counts, Len(args[1].e))
                /\ Len(res.e) = SumRepetitions(counts, Len(args[1].e))

\* C22 witness: repeat([1, 2, 3], [2, -1]) is [1, 1, 3, 3]: the third element
\* takes the first count again, the negative count gives no copy
C22_Witness ==
    /\ op = "repeat"
    /\ args = <<Ints(<<1, 2, 3>>), Ints(<<2, -1>>)>>
    /\ res = Ints(<<1, 1, 3, 3>>)

\* C23: for integers x and every non-zero integer m, positive or negative,
\* every element of mod(x, m) is >= 0; for m > 0 it is an integer in [0, m)
\* congruent to x modulo m, and mod([-2, 4, 3, 7], 5) is [3, 4, 3, 2].
C23_ModNonNegative ==
    (op = "mod" /\ ~IsArray(args[2]) /\ args[2] # Num(0)) =>
        LET xs == IF IsArray(args[1]) THEN args[1].e ELSE <<args[1]>>
            rs == IF IsArray(res) THEN res.e ELSE <<res>>
            m == args[2].n
        IN  /\ Len(rs) = Len(xs)
            /\ \A i \in 1 .. Len(xs) :
                /\ IsInt(rs[i]) /\ rs[i].n >= 0
                /\ m > 0 => (rs[i].n < m /\ (xs[i].n - rs[i].n) % m = 0)
            /\ args = <<Ints(<<-2, 4, 3, 7>>), Num(5)>> => res = Ints(<<3, 4, 3, 2>>)

\* the part of C23 about a positive modulus
C23_ModPositive ==
    (op = "mod" /\ ~IsArray(args[2]) /\ args[2].n > 0) => C23_ModNonNegative

\* C24: clone, padding and unique, called with numbers or lists of numbers,
\* return a value and raise no exception: negative clone offsets, a padding
\* length smaller than the input and a scalar passed to unique included.
C24_NeverThrows ==
    op \in {"clone", "padding", "unique"} => ~IsThrow(res)

\* the singleton [0]
Zero == Arr(<<Num(0)>>)

\* an empty or absent sequence argument
IsEmptyOrAbsent(v) == v.t = "undef" \/ (IsArray(v) /\ Len(v.e) = 0)

\* C25: a call with the sequence argument omitted or empty returns what the
\* call with [0] in its place returns, for palindrome, rotate, lookup (the
\* list looked up in), mod (the left operand), spray and repeat.
C25_EmptyFallsBack ==
    /\ (op = "palindrome" /\ IsEmptyOrAbsent(args[1])) => res = palindrome(Zero, args[2])
    /\ (op = "rotate" /\ IsEmptyOrAbsent(args[1])) => res = rotate(Zero, args[2])
    /\ (op = "lookup" /\ IsEmptyOrAbsent(args[2])) => res = lookup(args[1], Zero)
    /\ (op = "mod" /\ IsEmptyOrAbsent(args[1])) => res = mod(Zero, args[2])
    /\ (op = "spray" /\ IsEmptyOrAbsent(args[1])) => res = spray(Zero, args[2])
    /\ (op = "repeat" /\ IsEmptyOrAbsent(args[1])) => res = repeat(Zero, args[2])

\* the part of C25 about an omitted argument whose default is applied by the
\* parameter list
C25_AbsentFallsBack ==
    /\ (op = "lookup" /\ args[2].t = "undef") => res = lookup(args[1], Zero)
    /\ (op = "spray" /\ args[1].t = "undef") => res = spray(Zero, args[2])
    /\ (op = "repeat" /\ args[1].t = "undef") => res = repeat(Zero, args[2])

RECURSIVE NaNDeep(_)
\* v with every leaf replaced by NaN
NaNDeep(v) == IF IsArray(v) THEN Arr([i \in 1 .. Len(v.e) |-> NaNDeep(v.e[i])]) ELSE NaN

\* C26: when every leaf of the list seq is the same number, normalize(seq) and
\* signedNormalize(seq) return seq's shape with NaN at every leaf, neither 0
\* nor Infinity, and raise no exception.
C26_NormalizeConstant ==
    (op \in {"normalize", "signedNormalize"}
        /\ \E x \in LeafSet(args[1]) : x.t = "num" /\ LeafSet(args[1]) = {x}) =>
            res = NaNDeep(args[1])

\* C26 witness: signedNormalize([2, [2, [2]], 2]) is [NaN, [NaN, [NaN]], NaN]
C26_Witness ==
    /\ op = "signedNormalize"
    /\ args = <<Arr(<<Num(2), Arr(<<Num(2), Ints(<<2>>)>>), Num(2)>>)>>
    /\ res = Arr(<<NaN, Arr(<<NaN, Arr(<<NaN>>)>>), NaN>>)

\* the list res has len values, the first the smaller and the last the
\* greater of lo and hi
IsInclusiveSpread(len, lo, hi) ==
    /\ IsArray(res)
    /\ Len(res.e) = len.n
    /\ res.e[1] = NumMin(lo, hi)
    /\ res.e[len.n] = NumMax(lo, hi)

\* C27: spreadInclusiveFloat and spreadInclusiveFloatExp, called with an
\* integer len >= 2 and numbers lo and hi, return a list of exactly len values
\* from min(lo, hi) to max(lo, hi) and raise no exception.
C27_SpreadInclusive ==
    (op \in {"spreadInclusiveFloat", "spreadInclusiveFloatExp"}
        /\ IsInt(args[1]) /\ args[1].n >= 2 /\ IsNumber(args[2]) /\ IsNumber(args[3])) =>
            IsInclusiveSpread(args[1], args[2], args[3])

\* the part of C27 about spreadInclusiveFloat
C27_SpreadInclusiveFloat ==
    op = "spreadInclusiveFloat" => C27_SpreadInclusive

RECURSIVE ReflectDeep(_, _, _)
\* v with every leaf x replaced by hi + lo - x
ReflectDeep(v, lo, hi) ==
    IF IsArray(v) THEN Arr([i \in 1 .. Len(v.e) |-> ReflectDeep(v.e[i], lo, hi)])
    ELSE NumSub(NumAdd(hi, lo), v)

\* C28: for a list a of numbers, nested lists allowed, invert(a) without a
\* centre replaces every leaf x by max + min - x, so the lowest leaf becomes
\* the highest and vice versa and min and max are preserved; invert(a, lo, hi)
\* replaces x by hi + lo - x; in both cases the nesting shape is kept and
\* inverting the result again with the same lo and hi returns a.
C28_InvertInvolution ==
    /\ op = "invertAgain" => res = args[1]
    /\ (op \in {"invert", "invertAgain"} /\ args[2].t = "undef") =>
        LET r == IF op = "invert" THEN res ELSE prev
            lo == LeastOf(LeafSet(args[1]))
            hi == GreatestOf(LeafSet(args[1]))
        IN  /\ r = ReflectDeep(args[1], lo, hi)
            /\ LeastOf(LeafSet(r)) = lo
            /\ GreatestOf(LeafSet(r)) = hi
    /\ (op = "invert" /\ args[2].t # "undef" /\ args[3].t # "undef") =>
        res = ReflectDeep(args[1], args[2], args[3])

\* C28 witness: invert([0, [1, [2, 3]], [4, 5], 6]) is [6, [5, [4, 3]], [2, 1], 0],
\* and inverting that again returns the list
C28_Witness ==
    /\ op = "invertAgain"
    /\ args = <<Arr(<<Num(0), Arr(<<Num(1), Ints(<<2, 3>>)>>), Ints(<<4, 5>>), Num(6)>>),
                Undefined, Undefined>>
    /\ prev = Arr(<<Num(6), Arr(<<Num(5), Ints(<<4, 3>>)>>), Ints(<<2, 1>>), Num(0)>>)
    /\ res = args[1]

====
